---------------------------- MODULE Spec2Model ----------------------------
(***************************************************************************)
(* NeuroDesk / NEXUS backend: the task-orchestration core.                 *)
(*                                                                         *)
(* The model follows the Python source statement by statement.  A name     *)
(* that the source never binds (TaskPriority in task_executor.py, datetime *)
(* in api/v1/tasks.py) raises NameError where the interpreter evaluates    *)
(* it, and a call with more positional arguments than the callee declares  *)
(* raises TypeError.  The persistence collaborator is modelled by its      *)
(* contract: a commit makes the attribute values assigned in the session   *)
(* the stored row, a rollback discards them.  The inference, search and    *)
(* mail backends are nondeterministic: each call succeeds or fails.        *)
(*                                                                         *)
(* A message is a sequence of space-separated words.  No keyword of the    *)
(* source contains a space, so "keyword in message.lower()" holds exactly  *)
(* when the keyword occurs inside one word.                                *)
(***************************************************************************)
EXTENDS Integers, Sequences, FiniteSets, TLC

(***************************************************************************)
(* Bounds of the model.                                                    *)
(***************************************************************************)
\* Requests (orchestrate calls, endpoint calls, service calls) started in one
\* behaviour.
MaxRequests == 2
\* Transactions in the table handed to BudgetService in SpecBudget.
MaxTxns == 2
\* Subtasks in the list handed to the execution loop in SpecLoop.
MaxSubtasks == 3
\* Words in a message handed to _decompose_intent in SpecDecompose.
MaxWords == 3
\* Callbacks one user has subscribed at a time in SpecEvents.
MaxSubscribers == 2
\* Search results handed to _scrape_and_process in SpecScrape.
MaxSources == 3

(***************************************************************************)
(* Program constants.                                                      *)
(***************************************************************************)
DAILY_BUDGET_LIMIT == 1000
MONTHLY_BUDGET_LIMIT == 30000

None == "None"
Users == {"u1", "u2"}

(***************************************************************************)
(* Text: words, lower-casing, keyword occurrence.                          *)
(***************************************************************************)
\* str.lower() on one word of the vocabulary.
Lower(w) ==
    CASE w = "Research" -> "research"
      [] w = "Research:" -> "research:"
      [] w = "Delete" -> "delete"
      [] w = "Draft" -> "draft"
      [] w = "Compare" -> "compare"
      [] OTHER -> w

\* The keywords of the source that occur as substrings of a lower-case word.
KeywordsIn(w) ==
    CASE w \in {"research", "research:"} -> {"research", "search"}
      [] w = "email" -> {"email"}
      [] w = "draft" -> {"draft"}
      [] w = "send" -> {"send"}
      [] w = "message" -> {"message"}
      [] w = "find" -> {"find"}
      [] w = "search" -> {"search"}
      [] w = "lookup" -> {"lookup"}
      [] w = "purchase" -> {"purchase"}
      [] w = "compare" -> {"compare"}
      [] w \in {"price", "prices"} -> {"price"}
      [] w = "products:" -> {"product"}
      [] w = "buy" -> {"buy"}
      [] w = "delete" -> {"delete"}
      [] w = "and" -> {"and"}
      [] OTHER -> {}

\* keyword in message.lower()
Contains(msg, kw) == \E i \in 1..Len(msg) : kw \in KeywordsIn(Lower(msg[i]))

ContainsAny(msg, kws) == \E kw \in kws : Contains(msg, kw)

MsgResearchEmail ==
    <<"Research", "the", "best", "cloud", "providers", "and", "draft", "an", "email">>
MsgComparePrices == <<"research", "laptops", "and", "compare", "prices">>
MsgFindSend == <<"find", "hotels", "and", "send", "a", "message">>
MsgDelete == <<"Delete", "my", "account">>
MsgSimple == <<"research", "quantum", "computing">>

Messages == {MsgResearchEmail, MsgComparePrices, MsgFindSend, MsgDelete, MsgSimple}


(***************************************************************************)
(* Intent classifier (app/services/intent_parser.py).                      *)
(* An Optional[float] is a sequence of length at most one: <<>> is None.   *)
(***************************************************************************)
\* The fallback result of parse_intent when both backends failed.
FallbackIntent ==
    [intent |-> "unknown", confidence |-> 0, command |-> None,
     requires_approval |-> TRUE, estimated_cost |-> <<>>, risk_level |-> "high"]

\* Results the inference backends return in the model (confidence in percent).
RawIntents ==
    { [intent |-> "research_topic", confidence |-> 90, command |-> None,
       requires_approval |-> FALSE, estimated_cost |-> <<>>, risk_level |-> None],
      [intent |-> "send_email", confidence |-> 60, command |-> "send",
       requires_approval |-> FALSE, estimated_cost |-> <<50>>, risk_level |-> "low"],
      [intent |-> "purchase_item", confidence |-> 80, command |-> "buy",
       requires_approval |-> TRUE, estimated_cost |-> <<1500>>, risk_level |-> "high"] }

\* One backend call: a failure (network, status, parse, validation) or a result.
BackendOutcomes ==
    {[ok |-> FALSE, result |-> FallbackIntent]}
        \cup {[ok |-> TRUE, result |-> r] : r \in RawIntents}

\* Python truthiness of an Optional[float]: None and 0.0 are falsy.
Truthy(cost) == cost # <<>> /\ cost[1] # 0

SpendingKeywords == {"pay", "cost", "buy", "purchase", "spend", "price", "fee", "charge"}
DestructiveKeywords == {"delete", "remove", "destroy", "drop", "kill", "terminate"}

\* Rule 2 setting the risk level without looking at the level it replaces.
Rule2_Overwrite(r) ==
    IF Truthy(r.estimated_cost) /\ r.estimated_cost[1] > 0
    THEN [r EXCEPT !.requires_approval = TRUE, !.risk_level = "medium"]
    ELSE r

\* Rule 2 raising the risk level only.
Rule2_NoApproval(r) ==
    IF Truthy(r.estimated_cost) /\ r.estimated_cost[1] > 0
    THEN [r EXCEPT !.risk_level = IF @ \in {None, "", "low"} THEN "medium" ELSE @]
    ELSE r

Rule2(r) ==
    IF Truthy(r.estimated_cost) /\ r.estimated_cost[1] > 0
    THEN [r EXCEPT !.requires_approval = TRUE,
                   !.risk_level = IF @ \in {None, "", "low"} THEN "medium" ELSE @]
    ELSE r

Rule3(r, msg) ==
    IF ContainsAny(msg, SpendingKeywords)
    THEN [r EXCEPT !.requires_approval = TRUE,
                   !.estimated_cost = IF Truthy(@) THEN @ ELSE <<0>>]
    ELSE r

\* Rule 4 raising only an absent or 'low' level.
Rule4_LowOnly(r, msg) ==
    IF ContainsAny(msg, DestructiveKeywords)
    THEN [r EXCEPT !.requires_approval = TRUE,
                   !.risk_level = IF @ \in {None, "", "low"} THEN "high" ELSE @]
    ELSE r

Rule4(r, msg) ==
    IF ContainsAny(msg, DestructiveKeywords)
    THEN [r EXCEPT !.requires_approval = TRUE,
                   !.risk_level = IF @ \in {None, "", "low", "medium"} THEN "high" ELSE @]
    ELSE r

apply_business_rules(r, msg) == Rule4(Rule3(Rule2(r), msg), msg)

\* The backends parse_intent invokes, in order: Gemini is inside the except
\* clause of the Groq attempt.
backends_called(groq, gemini) ==
    IF groq.ok THEN <<"groq">> ELSE <<"groq", "gemini">>

\* parse_intent with the two attempts in the opposite order.
parse_intent_GeminiFirst(msg, groq, gemini) ==
    IF gemini.ok THEN apply_business_rules(gemini.result, msg)
    ELSE IF groq.ok THEN apply_business_rules(groq.result, msg)
    ELSE FallbackIntent

\* parse_intent: Groq first, Gemini when Groq failed, the fallback when both failed.
parse_intent(msg, groq, gemini) ==
    IF groq.ok THEN apply_business_rules(groq.result, msg)
    ELSE IF gemini.ok THEN apply_business_rules(gemini.result, msg)
    ELSE FallbackIntent

\* execute_task after the task row, as a function of the parsed intent: whether
\* it returns at the approval request, the cost on the Transaction row, and
\* whether the spend-recording step runs.
StopsForApproval(r) == r.requires_approval

TransactionCost(r) == IF Truthy(r.estimated_cost) THEN r.estimated_cost[1] ELSE 0

RecordsSpending(r) == Truthy(r.estimated_cost) /\ r.estimated_cost[1] > 0

\* Every IntentResult the schema admits over a small vocabulary: risk_level is
\* free text, estimated_cost is None or a float >= 0.
RiskLevels == {None, "low", "medium", "high", "critical"}
IntentResults ==
    [intent : {"research_topic", "delete_account"}, confidence : {60, 90},
     command : {None}, requires_approval : BOOLEAN,
     estimated_cost : {<<>>, <<0>>, <<50>>}, risk_level : RiskLevels]

IntentOutcomes ==
    {[ok |-> FALSE, result |-> FallbackIntent]}
        \cup {[ok |-> TRUE, result |-> r] : r \in IntentResults}

MsgDeleteBuy == <<"Delete", "the", "draft", "and", "buy", "laptops">>
RuleMessages == Messages \cup {MsgDeleteBuy}

(***************************************************************************)
(* Budget gate (app/services/budget_service.py).                           *)
(* A date is month * 100 + day; amounts are whole currency units.          *)
(***************************************************************************)
Dates == {128, 201, 203}

MonthStart(d) == (d \div 100) * 100 + 1

RECURSIVE SumCosts(_)
SumCosts(rows) ==
    IF rows = <<>> THEN 0 ELSE Head(rows).cost + SumCosts(Tail(rows))

\* The WHERE clause of get_spending.
InSpendingQuery(t, user, start_date, end_date) ==
    /\ t.created_by = user
    /\ t.status = "success"
    /\ t.date >= start_date
    /\ t.date <= end_date

get_spending(table, user, start_date, end_date) ==
    SumCosts(SelectSeq(table, LAMBDA t : InSpendingQuery(t, user, start_date, end_date)))

\* A faulty variant of the comparison: a request landing on the limit is rejected.
Exceeds_Inclusive(current_spending, amount, limit) == current_spending + amount >= limit

Exceeds(current_spending, amount, limit) == current_spending + amount > limit

check_budget(table, now, user, amount, period) ==
    IF period = "daily"
    THEN LET cur == get_spending(table, user, now, now)
         IN  IF Exceeds(cur, amount, DAILY_BUDGET_LIMIT)
             THEN [allowed |-> FALSE, error |-> "Budget limit exceeded"]
             ELSE [allowed |-> TRUE, error |-> None]
    ELSE IF period = "monthly"
    THEN LET cur == get_spending(table, user, MonthStart(now), now)
         IN  IF Exceeds(cur, amount, MONTHLY_BUDGET_LIMIT)
             THEN [allowed |-> FALSE, error |-> "Budget limit exceeded"]
             ELSE [allowed |-> TRUE, error |-> None]
    ELSE [allowed |-> FALSE, error |-> "Invalid period"]


(***************************************************************************)
(* Orchestrator: complexity decision and decomposition                     *)
(* (app/services/orchestrator.py, _is_complex_intent, _decompose_intent).  *)
(***************************************************************************)
ActionKeywords(action) ==
    CASE action = "research" -> {"research", "search", "find", "lookup"}
      [] action = "communication" -> {"email", "send", "draft", "message"}
      [] action = "purchase" -> {"buy", "purchase", "product", "price"}

found_actions(msg) ==
    {a \in {"research", "communication", "purchase"} : ContainsAny(msg, ActionKeywords(a))}

\* A faulty variant of the complexity decision: nothing is ever complex.
_is_complex_intent_Never(msg) == FALSE

_is_complex_intent(msg) == Cardinality(found_actions(msg)) > 1

\* str.replace(kw, "") on one word (case-sensitive).
ReplaceWord(w, kw) ==
    CASE w = kw -> ""
      [] w = "research:" /\ kw = "research" -> ":"
      [] OTHER -> w

Replace(msg, kw) == [i \in 1..Len(msg) |-> ReplaceWord(msg[i], kw)]

\* str.strip(): the empty words at both ends are what is left of the spaces.
RECURSIVE LStrip(_)
LStrip(msg) == IF msg # <<>> /\ Head(msg) = "" THEN LStrip(Tail(msg)) ELSE msg

RECURSIVE RStrip(_)
RStrip(msg) ==
    IF msg # <<>> /\ msg[Len(msg)] = "" THEN RStrip(SubSeq(msg, 1, Len(msg) - 1)) ELSE msg

Strip(msg) == RStrip(LStrip(msg))

\* user_message.split(" and ", 1)[0]: the words before the first inner "and".
BeforeAnd(msg) ==
    LET at == {i \in 2..(Len(msg) - 1) : msg[i] = "and"}
    IN  IF at = {} THEN msg
        ELSE SubSeq(msg, 1, (CHOOSE i \in at : \A j \in at : i <= j) - 1)

\* " " + user_message.split("email", 1)[1], or nothing when the split has one part.
AfterEmail(msg) ==
    LET at == {i \in 1..Len(msg) : msg[i] = "email"}
    IN  IF at = {} THEN <<>>
        ELSE <<"">> \o SubSeq(msg, (CHOOSE i \in at : \A j \in at : i <= j) + 1, Len(msg))

ResearchQuery(msg) ==
    IF Contains(msg, "and") THEN Strip(Replace(BeforeAnd(msg), "research")) ELSE msg

ProductQuery(msg) ==
    Strip(Replace(Replace(Replace(msg, "research"), "compare"), "prices"))

\* A faulty variant of the decomposition: the draft is listed before the research
\* it depends on.
_decompose_intent_Forward(msg) ==
    IF Contains(msg, "research") /\ (Contains(msg, "email") \/ Contains(msg, "draft"))
    THEN << [title |-> "Email Draft Task",
             description |-> <<"Draft", "email">>,
             agent_type |-> "communication", dependencies |-> {1}, action |-> "draft"],
            [title |-> "Research Task",
             description |-> <<"Research:">> \o ResearchQuery(msg),
             agent_type |-> "research", dependencies |-> {}, action |-> None] >>
    ELSE << [title |-> "Execute Task", description |-> msg,
             agent_type |-> None, dependencies |-> {}, action |-> None] >>

\* A faulty variant of the decomposition: the price template is tried first.
_decompose_intent_PriceFirst(msg) ==
    IF Contains(msg, "research") /\ (Contains(msg, "compare") \/ Contains(msg, "price"))
    THEN << [title |-> "Product Research",
             description |-> <<"Research", "products:">> \o ProductQuery(msg),
             agent_type |-> "research", dependencies |-> {}, action |-> None],
            [title |-> "Price Comparison",
             description |-> <<"Compare", "prices", "for:">> \o ProductQuery(msg),
             agent_type |-> "purchase", dependencies |-> {0}, action |-> None] >>
    ELSE IF Contains(msg, "research") /\ (Contains(msg, "email") \/ Contains(msg, "draft"))
    THEN << [title |-> "Research Task",
             description |-> <<"Research:">> \o ResearchQuery(msg),
             agent_type |-> "research", dependencies |-> {}, action |-> None],
            [title |-> "Email Draft Task",
             description |-> <<"Draft", "email", "based", "on", "research", "about:">>,
             agent_type |-> "communication", dependencies |-> {0}, action |-> "draft"] >>
    ELSE << [title |-> "Execute Task", description |-> msg,
             agent_type |-> None, dependencies |-> {}, action |-> None] >>

_decompose_intent(msg) ==
    IF Contains(msg, "research") /\ (Contains(msg, "email") \/ Contains(msg, "draft"))
    THEN << [title |-> "Research Task",
             description |-> <<"Research:">> \o ResearchQuery(msg),
             agent_type |-> "research", dependencies |-> {}, action |-> None],
            [title |-> "Email Draft Task",
             description |->
                 <<"Draft", "email", "based", "on", "research", "about:">>
                     \o ResearchQuery(msg)
                     \o (IF Contains(msg, "email") THEN AfterEmail(msg) ELSE <<>>),
             agent_type |-> "communication", dependencies |-> {0}, action |-> "draft"] >>
    ELSE IF Contains(msg, "research") /\ (Contains(msg, "compare") \/ Contains(msg, "price"))
    THEN << [title |-> "Product Research",
             description |-> <<"Research", "products:">> \o ProductQuery(msg),
             agent_type |-> "research", dependencies |-> {}, action |-> None],
            [title |-> "Price Comparison",
             description |-> <<"Compare", "prices", "for:">> \o ProductQuery(msg),
             agent_type |-> "purchase", dependencies |-> {0}, action |-> None] >>
    ELSE << [title |-> "Execute Task", description |-> msg,
             agent_type |-> None, dependencies |-> {}, action |-> None] >>

\* A faulty variant of the dependency check: dependencies are never looked at.
DependenciesMet_Ignored(spec, executed_results) == TRUE

\* The dependency check of orchestrate: every dependency index has a recorded result.
DependenciesMet(spec, executed_results) ==
    \A dep_index \in spec.dependencies : dep_index \in DOMAIN executed_results

\* A faulty variant of the aggregation: the parent is completed whatever happened.
ParentOutcome_Completed(all_succeeded, error_message) ==
    [status |-> "completed", error |-> error_message]

\* The parent's final status and error message; a completed parent keeps its message.
ParentOutcome(all_succeeded, error_message) ==
    IF all_succeeded
    THEN [status |-> "completed", error |-> error_message]
    ELSE [status |-> "failed", error |-> "One or more subtasks failed"]

(***************************************************************************)
(* Communication agent behind BaseAgent.run (app/agents/base.py,           *)
(* app/agents/communication_agent.py).  A task dict is [action, to]; a     *)
(* missing key is None.                                                    *)
(***************************************************************************)
\* A recipient that is not a string (a JSON number in the request body).
NotAString == "<number 42>"
Recipients == {None, "not-an-address", "bob@example.com", NotAString}
AgentActions == {None, "draft", "send", "forward"}

_validate_email(email) == email = "bob@example.com"

validate_input(task) ==
    IF task.action \notin {"draft", "send"} THEN "Action must be 'draft' or 'send'"
    ELSE IF task.action = "send" /\ task.to = None
    THEN "Recipient email (to) is required for sending"
    ELSE None

\* The estimation without the branch for 'send'.
estimate_cost_and_risk_NoSendBranch(task) ==
    [cost |-> 0, risk_level |-> "low", requires_approval |-> FALSE]

estimate_cost_and_risk(task) ==
    IF task.action = "send"
    THEN [cost |-> 0, risk_level |-> "medium", requires_approval |-> TRUE]
    ELSE [cost |-> 0, risk_level |-> "low", requires_approval |-> FALSE]

AgentResult(success, error, sent) ==
    [success |-> success, error |-> error, sent |-> sent, requires_approval |-> FALSE]

\* _draft_email: the draft itself falls back to a template when inference fails.
_draft_email(task) ==
    IF task.to = None THEN AgentResult(FALSE, "Recipient email (to) is required", FALSE)
    ELSE IF ~_validate_email(task.to) THEN AgentResult(FALSE, "Invalid email format", FALSE)
    ELSE AgentResult(TRUE, None, FALSE)

\* _send_email: mail_ok is the outcome of the call to the mail delivery API.
_send_email(task, resend_api_key, mail_ok) ==
    IF task.to = None THEN AgentResult(FALSE, "Recipient email (to) is required", FALSE)
    ELSE IF ~_validate_email(task.to) THEN AgentResult(FALSE, "Invalid email format", FALSE)
    ELSE IF ~resend_api_key THEN AgentResult(FALSE, "Resend API key not configured", FALSE)
    ELSE IF mail_ok THEN AgentResult(TRUE, None, TRUE)
    ELSE AgentResult(FALSE, "Email sending failed", FALSE)

execute(task, resend_api_key, mail_ok) ==
    IF task.action = "draft" THEN _draft_email(task)
    ELSE IF task.action = "send" THEN _send_email(task, resend_api_key, mail_ok)
    ELSE AgentResult(FALSE, "Unknown action", FALSE)

\* The outcome of one awaited call: an exception or a returned value.
Raises(text) == [raises |-> TRUE, value |-> text]
Returns(value) == [raises |-> FALSE, value |-> value]

\* execute as run awaits it: re.match in _validate_email raises TypeError on a
\* recipient that is not a string, before the try block of _draft_email and
\* _send_email, so the exception leaves execute.
execute_outcome(task, resend_api_key, mail_ok) ==
    IF task.action \in {"draft", "send"} /\ task.to = NotAString
    THEN Raises("expected string or bytes-like object")
    ELSE Returns(execute(task, resend_api_key, mail_ok))

\* BaseAgent.run without its try/except: an exception of a stage leaves run.
BaseAgent_run_NoHandler(validation, estimation, execution) ==
    IF validation.raises
    THEN [raised |-> TRUE, executed |-> FALSE,
          result |-> AgentResult(FALSE, None, FALSE)]
    ELSE IF validation.value # None
    THEN [raised |-> FALSE, executed |-> FALSE,
          result |-> AgentResult(FALSE, "Validation failed", FALSE)]
    ELSE IF estimation.raises
    THEN [raised |-> TRUE, executed |-> FALSE,
          result |-> AgentResult(FALSE, None, FALSE)]
    ELSE IF execution.raises
    THEN [raised |-> TRUE, executed |-> TRUE,
          result |-> AgentResult(FALSE, None, FALSE)]
    ELSE [raised |-> FALSE, executed |-> TRUE,
          result |-> [execution.value EXCEPT
                         !.requires_approval = estimation.value.requires_approval]]

\* BaseAgent.run on the outcomes of its three awaited calls: validate, estimate,
\* execute, copy the estimate onto the result; the except clause turns an
\* exception of any stage into a failed AgentResult.  executed tells whether
\* execute was invoked, raised whether an exception left run.
BaseAgent_run(validation, estimation, execution) ==
    IF validation.raises
    THEN [raised |-> FALSE, executed |-> FALSE,
          result |-> AgentResult(FALSE, "Agent execution failed", FALSE)]
    ELSE IF validation.value # None
    THEN [raised |-> FALSE, executed |-> FALSE,
          result |-> AgentResult(FALSE, "Validation failed", FALSE)]
    ELSE IF estimation.raises
    THEN [raised |-> FALSE, executed |-> FALSE,
          result |-> AgentResult(FALSE, "Agent execution failed", FALSE)]
    ELSE IF execution.raises
    THEN [raised |-> FALSE, executed |-> TRUE,
          result |-> AgentResult(FALSE, "Agent execution failed", FALSE)]
    ELSE [raised |-> FALSE, executed |-> TRUE,
          result |-> [execution.value EXCEPT
                         !.requires_approval = estimation.value.requires_approval]]

\* CommunicationAgent.run: BaseAgent.run over the agent's own three methods.
run(task, resend_api_key, mail_ok) ==
    BaseAgent_run(Returns(validate_input(task)),
                  Returns(estimate_cost_and_risk(task)),
                  execute_outcome(task, resend_api_key, mail_ok)).result

\* The outcomes of the three methods of an arbitrary agent variant.
Validations ==
    {Returns(None), Returns("Query is required"), Raises("validate_input raised")}
Estimations ==
    {Returns([cost |-> 0, risk_level |-> "low", requires_approval |-> ra]) :
         ra \in BOOLEAN} \cup {Raises("estimate_cost_and_risk raised")}
Executions ==
    {Returns(AgentResult(TRUE, None, FALSE)),
     Returns(AgentResult(FALSE, "No sources found for query", FALSE)),
     Raises("execute raised")}

(***************************************************************************)
(* Policy gates (app/services/policy_service.py) and the agent type        *)
(* execute_task resolves (app/services/task_executor.py).                  *)
(***************************************************************************)
ALLOWED_TOOLS == {"research", "communication", "purchase"}
MAX_SPEND_PER_TASK == 1000

check_tool_allowed(tool_name) ==
    IF tool_name \notin ALLOWED_TOOLS
    THEN [allowed |-> FALSE, error |-> "Tool is not in the allowlist"]
    ELSE [allowed |-> TRUE, error |-> None]

\* estimated_cost is the intent's Optional[float]; None is taken as 0.0.
check_max_spend_per_task(estimated_cost, max_spend) ==
    IF Truthy(estimated_cost) /\ estimated_cost[1] > max_spend
    THEN [allowed |-> FALSE, error |-> "Estimated cost exceeds maximum spend per task"]
    ELSE [allowed |-> TRUE, error |-> None]

\* The keywords of _determine_agent_type that occur in an intent name or a
\* command of the model.
IntentKeywords(text) ==
    CASE text = "research_topic" -> {"research", "search"}
      [] text = "send_email" -> {"email", "send"}
      [] text = "purchase_item" -> {"purchase"}
      [] text = "delete_account" -> {}
      [] text = "send" -> {"send"}
      [] text = "buy" -> {"buy"}
      [] text = "send_research_email" -> {"send", "research", "search", "email"}
      [] text = "buy_and_email" -> {"buy", "email"}
      [] text = "Draft_Reply" -> {"draft"}
      [] text = "compare_prices" -> {"compare", "price"}
      [] text = "find_product" -> {"find", "product"}
      [] text = "lookup_and_message" -> {"lookup", "message"}
      [] text = "research" -> {"research", "search"}
      [] text = "email" -> {"email"}
      [] text = "purchase" -> {"purchase"}
      [] OTHER -> {}

\* A faulty variant of the dispatch: the command is looked at before the intent.
_determine_agent_type_CommandFirst(intent_result) ==
    LET intent == IntentKeywords(intent_result.intent)
        command == IntentKeywords(intent_result.command)
    IN  IF "research" \in command THEN "research"
        ELSE IF "email" \in command \/ "send" \in command THEN "communication"
        ELSE IF "purchase" \in command \/ "buy" \in command THEN "purchase"
        ELSE IF intent \cap {"research", "search", "find", "lookup"} # {} THEN "research"
        ELSE IF intent \cap {"email", "send", "draft", "communicate", "message"} # {}
        THEN "communication"
        ELSE IF intent \cap {"purchase", "buy", "product", "price", "compare"} # {}
        THEN "purchase"
        ELSE "research"

_determine_agent_type(intent_result) ==
    LET intent == IntentKeywords(intent_result.intent)
        command == IntentKeywords(intent_result.command)
    IN  IF intent \cap {"research", "search", "find", "lookup"} # {} THEN "research"
        ELSE IF intent \cap {"email", "send", "draft", "communicate", "message"} # {}
        THEN "communication"
        ELSE IF intent \cap {"purchase", "buy", "product", "price", "compare"} # {}
        THEN "purchase"
        ELSE IF "research" \in command THEN "research"
        ELSE IF "email" \in command \/ "send" \in command THEN "communication"
        ELSE IF "purchase" \in command \/ "buy" \in command THEN "purchase"
        ELSE "research"

(***************************************************************************)
(* State.                                                                  *)
(***************************************************************************)
VARIABLES
    tasks,             \* the tasks table: task id -> committed row
    txns,              \* the transactions table
    today,             \* date.today()
    orch,              \* the frame of the running Orchestrator.orchestrate call
    exe,               \* the frame of the TaskExecutor.execute_task call it awaits
    events,            \* events handed to event_service.publish, in order
    delivered,         \* users for whom the mail API accepted a message
    approved,          \* task ids approved through ApprovalService.approve_task
    lastResp,          \* the response of the latest endpoint or service call
    budgetCall,        \* the latest BudgetService.check_budget call and its result
    resend_api_key,    \* whether settings.RESEND_API_KEY is set
    nreq,              \* requests started so far
    audit,             \* the audit_logs table: one event per _log_audit call
    intentCall,        \* the latest parse_intent call and its result
    rulesCall,         \* the latest apply_business_rules call and its result
    agentCall,         \* the latest BaseAgent.run call and its result
    sanitized,         \* texts PolicyService.sanitize_error_message has returned
    decompCall,        \* the latest _is_complex_intent / _decompose_intent call
    typeCall,          \* the latest TaskExecutor._determine_agent_type call
    bus,               \* EventService: its subscribers and the running publish call
    scrapeCall,        \* the latest ResearchAgent._scrape_and_process call and its result
    sess               \* the database sessions of the approval requests in flight

vars == <<tasks, txns, today, orch, exe, events, delivered, approved, lastResp,
          budgetCall, resend_api_key, nreq, audit, intentCall, rulesCall, agentCall,
          sanitized, decompCall, typeCall, bus,
          scrapeCall, sess>>

NameErrorTaskPriority == "name 'TaskPriority' is not defined"
TypeErrorExecuteTask ==
    "TaskExecutor.execute_task() takes from 3 to 4 positional arguments but 6 were given"

(***************************************************************************)
(* PolicyService.sanitize_error_message (app/services/policy_service.py),  *)
(* on the error texts of the model.                                        *)
(***************************************************************************)
DbErrorText == "could not connect: postgresql://nexus:pw@db:5432/nexus"
KeyErrorText == "401 Unauthorized: api_key=sk-live-1234"
InternalErrorText == "Unhandled exception in worker"
GenericErrorMessage == "An internal error occurred. Please try again or contact support."

\* The four re.sub passes; a text none of the patterns matches is unchanged.
Redact(text) ==
    CASE text = DbErrorText -> "could not connect: [DB_CONNECTION_REDACTED]"
      [] text = KeyErrorText -> "401 Unauthorized: api_key=[REDACTED]"
      [] OTHER -> text

\* "traceback" in error_str.lower() or "exception" in error_str.lower()
MentionsInternals(text) == text = InternalErrorText

sanitize_error_message(text) ==
    IF MentionsInternals(Redact(text)) THEN GenericErrorMessage ELSE Redact(text)


NoIntent ==
    [intent |-> None, confidence |-> 0, command |-> None,
     requires_approval |-> FALSE, estimated_cost |-> <<>>, risk_level |-> None]

IdleExec ==
    [pc |-> "idle", user |-> None, msg |-> <<>>, intent |-> NoIntent,
     dependency_results |-> {}, task |-> 0, error |-> None]

IdleOrch ==
    [pc |-> "idle", user |-> None, msg |-> <<>>, backends_ok |-> TRUE,
     subtasks |-> <<>>, parent_id |-> 0, parent_task |-> [status |-> None, error |-> None],
     created_subtasks |-> <<>>, k |-> 0, executed_results |-> <<>>,
     all_succeeded |-> TRUE, called |-> {}, outcome |-> None]

NoResp == [op |-> None, code |-> 0, task |-> 0, detail |-> None]

NoIntentCall ==
    [called |-> FALSE, msg |-> <<>>, groq |-> [ok |-> FALSE, result |-> FallbackIntent],
     gemini |-> [ok |-> FALSE, result |-> FallbackIntent], backends |-> <<>>,
     result |-> NoIntent]

NoRulesCall == [called |-> FALSE, msg |-> <<>>, input |-> NoIntent, result |-> NoIntent]

NoDecompCall == [called |-> FALSE, msg |-> <<>>, is_complex |-> FALSE, subtasks |-> <<>>]

NoTypeCall == [called |-> FALSE, intent |-> None, command |-> None, agent_type |-> None]

\* The frame of a publish call: the list object it iterates is the user's list at
\* the call (before), seen live through the index i, or the emptied object that
\* unsubscribe deleted from the table (detached).
NoPublish ==
    [pc |-> "idle", user |-> None, i |-> 0, called |-> <<>>, raised |-> FALSE,
     before |-> <<>>, detached |-> FALSE]

NoBusCall == [op |-> None, user |-> None, callback |-> None]

NoScrapeCall == [called |-> FALSE, sources |-> <<>>, processed |-> <<>>, fetched |-> {}]

NoSessions == <<>>

\* _subscribers: keys are the users with an entry, _subscribers[u] is u's list.
IdleBus ==
    [_subscribers |-> [u \in Users |-> <<>>], keys |-> {}, pub |-> NoPublish,
     last |-> NoBusCall]

NoAgentCall ==
    [called |-> FALSE, agent |-> None, task |-> [action |-> None, to |-> None],
     resend_api_key |-> FALSE, mail_ok |-> FALSE,
     validation |-> Returns(None),
     estimation |-> Returns([cost |-> 0, risk_level |-> "low", requires_approval |-> FALSE]),
     execution |-> Returns(AgentResult(TRUE, None, FALSE)),
     raised |-> FALSE, executed |-> FALSE, result |-> AgentResult(FALSE, None, FALSE)]

NoBudgetCall ==
    [user |-> None, amount |-> 0, period |-> None, allowed |-> FALSE, error |-> None]

Init ==
    /\ tasks = <<>>
    /\ txns = <<>>
    /\ today = 203
    /\ orch = IdleOrch
    /\ exe = IdleExec
    /\ events = <<>>
    /\ delivered = {}
    /\ approved = {}
    /\ lastResp = NoResp
    /\ budgetCall = NoBudgetCall
    /\ resend_api_key \in BOOLEAN
    /\ nreq = 0
    /\ audit = <<>>
    /\ intentCall = NoIntentCall
    /\ rulesCall = NoRulesCall
    /\ agentCall = NoAgentCall
    /\ sanitized = {}
    /\ decompCall = NoDecompCall
    /\ typeCall = NoTypeCall
    /\ bus = IdleBus
    /\ scrapeCall = NoScrapeCall
    /\ sess = NoSessions

\* A row of the tasks table.
Task(status, created_by, kind, parent, index) ==
    [status |-> status, error |-> None, created_by |-> created_by, kind |-> kind,
     parent |-> parent, index |-> index, all_succeeded |-> <<>>,
     approval_request |-> FALSE, dependencies |-> {}, subtask_results |-> {},
     approved_by |-> None, started_at |-> None, completed_at |-> None]

\* The rows orchestrate commits before the loop: the parent, then one row per
\* subtask carrying its index, its dependency indices and the parent's id.
PersistedRows_NoDependencies(user, parent_id, subtasks) ==
    <<Task("pending", user, "parent", 0, 0)>>
        \o [j \in 1..Len(subtasks) |-> Task("pending", user, "subtask", parent_id, j - 1)]

PersistedRows(user, parent_id, subtasks) ==
    <<Task("pending", user, "parent", 0, 0)>>
        \o [j \in 1..Len(subtasks) |->
               [Task("pending", user, "subtask", parent_id, j - 1)
                   EXCEPT !.dependencies = subtasks[j].dependencies]]

\* The frame of orchestrate when it enters the loop over created_subtasks.
LoopEntry(frame, parent_id, subtasks) ==
    [frame EXCEPT
        !.pc = "loop", !.parent_id = parent_id, !.subtasks = subtasks,
        !.parent_task = [status |-> "in_progress", error |-> None],
        !.created_subtasks =
            [j \in 1..Len(subtasks) |-> [id |-> parent_id + j, status |-> "pending",
                                         error |-> None]],
        !.k = 1, !.executed_results = <<>>, !.all_succeeded = TRUE]

\* The two events orchestrate publishes between the commit and the loop.
PersistEvents(parent_id) ==
    << [type |-> "task_created", task |-> parent_id, status |-> "pending"],
       [type |-> "status_changed", task |-> parent_id, status |-> "in_progress"] >>

\* "for subtask_info in created_subtasks": the position examined after position k.
NextIndex_Break(k, n) == n + 1
NextIndex_Repeat(k, n) == k
NextIndex(k, n) == k + 1

(***************************************************************************)
(* TaskExecutor.execute_task (app/services/task_executor.py).              *)
(***************************************************************************)
\* Step 1: the awaited parse_intent call.
ExecParse ==
    /\ exe.pc = "parse"
    /\ \E groq \in BackendOutcomes, gemini \in BackendOutcomes :
           /\ exe' = [exe EXCEPT !.pc = "create",
                                 !.intent = parse_intent(exe.msg, groq, gemini)]
           /\ orch' = [orch EXCEPT !.backends_ok = @ /\ groq.ok]
    /\ UNCHANGED <<tasks, txns, today, events, delivered, approved, lastResp,
                   budgetCall, resend_api_key, nreq,
                   audit, intentCall, rulesCall, agentCall, sanitized,
                   decompCall, typeCall, bus,
                   scrapeCall, sess>>

\* Step 2: the Task constructor call evaluates TaskPriority.MEDIUM, a name the
\* module never binds: NameError leaves execute_task before db.add.
ExecCreate ==
    /\ exe.pc = "create"
    /\ exe' = [exe EXCEPT !.pc = "raised", !.error = NameErrorTaskPriority]
    /\ UNCHANGED <<tasks, txns, today, orch, events, delivered, approved, lastResp,
                   budgetCall, resend_api_key, nreq,
                   audit, intentCall, rulesCall, agentCall, sanitized,
                   decompCall, typeCall, bus,
                   scrapeCall, sess>>

(***************************************************************************)
(* Orchestrator.orchestrate (app/services/orchestrator.py).                *)
(***************************************************************************)
StartOrchestrate(user_id, user_message) ==
    /\ nreq < MaxRequests
    /\ orch.pc \in {"idle", "done"}
    /\ exe.pc = "idle"
    /\ orch' = [IdleOrch EXCEPT !.pc = "parse", !.user = user_id, !.msg = user_message]
    /\ nreq' = nreq + 1
    /\ UNCHANGED <<tasks, txns, today, exe, events, delivered, approved, lastResp,
                   budgetCall, resend_api_key,
                   audit, intentCall, rulesCall, agentCall, sanitized,
                   decompCall, typeCall, bus,
                   scrapeCall, sess>>

\* Steps 1 and 2: classify, decide complexity, decompose; a message that is not
\* complex or yields one subtask is handed to execute_task.
OrchParse ==
    /\ orch.pc = "parse"
    /\ \E groq \in BackendOutcomes, gemini \in BackendOutcomes :
         LET subtasks == _decompose_intent(orch.msg)
         IN  IF ~_is_complex_intent(orch.msg) \/ Len(subtasks) <= 1
             THEN /\ orch' = [orch EXCEPT !.pc = "delegated", !.backends_ok = groq.ok]
                  /\ exe' = [IdleExec EXCEPT !.pc = "parse", !.user = orch.user,
                                             !.msg = orch.msg]
             ELSE /\ orch' = [orch EXCEPT !.pc = "persist", !.backends_ok = groq.ok,
                                          !.subtasks = subtasks]
                  /\ UNCHANGED exe
    /\ UNCHANGED <<tasks, txns, today, events, delivered, approved, lastResp,
                   budgetCall, resend_api_key, nreq,
                   audit, intentCall, rulesCall, agentCall, sanitized,
                   decompCall, typeCall, bus,
                   scrapeCall, sess>>

\* Steps 3 and 4: parent and subtasks are committed pending; the parent object is
\* then set in_progress in the session only, and both events are published.
OrchPersist ==
    /\ orch.pc = "persist"
    /\ LET parent_id == Len(tasks) + 1
       IN  /\ tasks' = tasks \o PersistedRows(orch.user, parent_id, orch.subtasks)
           /\ events' = events \o PersistEvents(parent_id)
           /\ orch' = LoopEntry(orch, parent_id, orch.subtasks)
    /\ UNCHANGED <<txns, today, exe, delivered, approved, lastResp, budgetCall,
                   resend_api_key, nreq,
                   audit, intentCall, rulesCall, agentCall, sanitized,
                   decompCall, typeCall, bus,
                   scrapeCall, sess>>

\* Step 5, one iteration: the dependency check, then either the subtask is marked
\* failed or execute_task is called with the subtask's description.
OrchSubtask ==
    /\ orch.pc = "loop"
    /\ orch.k <= Len(orch.subtasks)
    /\ LET spec == orch.subtasks[orch.k]
       IN  IF ~DependenciesMet(spec, orch.executed_results)
           THEN /\ orch' = [orch EXCEPT
                       !.created_subtasks[orch.k].status = "failed",
                       !.created_subtasks[orch.k].error = "Dependencies not met",
                       !.all_succeeded = FALSE,
                       !.k = NextIndex(@, Len(orch.subtasks))]
                /\ UNCHANGED exe
           ELSE /\ orch' = [orch EXCEPT !.pc = "await", !.called = @ \cup {orch.k - 1}]
                /\ exe' = [IdleExec EXCEPT
                       !.pc = "parse", !.user = orch.user, !.msg = spec.description,
                       !.dependency_results = spec.dependencies]
    /\ UNCHANGED <<tasks, txns, today, events, delivered, approved, lastResp,
                   budgetCall, resend_api_key, nreq,
                   audit, intentCall, rulesCall, agentCall, sanitized,
                   decompCall, typeCall, bus,
                   scrapeCall, sess>>

\* The except clause around the subtask's execute_task call.
OrchCatch ==
    /\ orch.pc = "await"
    /\ exe.pc = "raised"
    /\ orch' = [orch EXCEPT
           !.pc = "loop",
           !.created_subtasks[orch.k].status = "failed",
           !.created_subtasks[orch.k].error = exe.error,
           !.all_succeeded = FALSE, !.k = NextIndex(@, Len(orch.subtasks))]
    /\ exe' = IdleExec
    /\ UNCHANGED <<tasks, txns, today, events, delivered, approved, lastResp,
                   budgetCall, resend_api_key, nreq,
                   audit, intentCall, rulesCall, agentCall, sanitized,
                   decompCall, typeCall, bus,
                   scrapeCall, sess>>

\* No handler surrounds the delegating calls: the exception leaves orchestrate.
OrchPropagate ==
    /\ orch.pc = "delegated"
    /\ exe.pc = "raised"
    /\ orch' = [orch EXCEPT !.pc = "done", !.outcome = "raised"]
    /\ exe' = IdleExec
    /\ UNCHANGED <<tasks, txns, today, events, delivered, approved, lastResp,
                   budgetCall, resend_api_key, nreq,
                   audit, intentCall, rulesCall, agentCall, sanitized,
                   decompCall, typeCall, bus,
                   scrapeCall, sess>>

\* Aggregation: the parent's status, the commit of every object changed in the
\* session, and the task_completed event.
OrchFinish ==
    /\ orch.pc = "loop"
    /\ orch.k > Len(orch.subtasks)
    /\ LET final == ParentOutcome(orch.all_succeeded, orch.parent_task.error)
           subtask(t) == orch.created_subtasks[t - orch.parent_id]
       IN  /\ tasks' = [t \in DOMAIN tasks |->
                  IF t = orch.parent_id
                  THEN [tasks[t] EXCEPT !.status = final.status, !.error = final.error,
                                        !.subtask_results = DOMAIN orch.executed_results,
                                        !.started_at = "utcnow",
                                        !.completed_at = "utcnow",
                                        !.all_succeeded = <<orch.all_succeeded>>]
                  ELSE IF t > orch.parent_id /\ t <= orch.parent_id + Len(orch.subtasks)
                  THEN [tasks[t] EXCEPT !.status = subtask(t).status,
                                        !.error = subtask(t).error]
                  ELSE tasks[t]]
           /\ events' = Append(events,
                  [type |-> "task_completed", task |-> orch.parent_id,
                   status |-> final.status])
           /\ orch' = [orch EXCEPT !.pc = "done", !.outcome = "returned",
                                   !.parent_task = final]
    /\ UNCHANGED <<txns, today, exe, delivered, approved, lastResp, budgetCall,
                   resend_api_key, nreq,
                   audit, intentCall, rulesCall, agentCall, sanitized,
                   decompCall, typeCall, bus,
                   scrapeCall, sess>>

(***************************************************************************)
(* Task endpoints (app/api/v1/tasks.py).                                   *)
(***************************************************************************)
Resp(op, code, task, detail) == [op |-> op, code |-> code, task |-> task, detail |-> detail]

\* A task id of a request: a stored row or an id that matches none.
TaskIds == 1..(Len(tasks) + 1)

\* SELECT ... WHERE id = task_id AND created_by = current_user.id
OwnTask(task_id, user_id) == task_id \in DOMAIN tasks /\ tasks[task_id].created_by = user_id

\* create_task with a user_message: execute_task is called with six positional
\* arguments and declares four; the TypeError is answered with status 500.
CreateTaskMessage(user_id, user_message) ==
    /\ nreq < MaxRequests
    /\ nreq' = nreq + 1
    /\ lastResp' = Resp("create_task", 500, 0, "TypeError")
    /\ sanitized' = sanitized \cup {sanitize_error_message(TypeErrorExecuteTask)}
    /\ UNCHANGED <<tasks, txns, today, orch, exe, events, delivered, approved,
                   budgetCall, resend_api_key,
                   audit, intentCall, rulesCall, agentCall,
                   decompCall, typeCall, bus,
                   scrapeCall, sess>>

\* create_task without a user_message: a manual task is stored pending.
CreateTaskManual(user_id) ==
    /\ nreq < MaxRequests
    /\ tasks' = Append(tasks, Task("pending", user_id, "manual", 0, 0))
    /\ lastResp' = Resp("create_task", 201, Len(tasks) + 1, None)
    /\ nreq' = nreq + 1
    /\ UNCHANGED <<txns, today, orch, exe, events, delivered, approved, budgetCall,
                   resend_api_key,
                   audit, intentCall, rulesCall, agentCall, sanitized,
                   decompCall, typeCall, bus,
                   scrapeCall, sess>>

\* POST /{task_id}/approve: after the two checks the handler evaluates
\* datetime.utcnow(), a name the module never binds; the session is rolled back.
ApproveEndpoint(user_id, task_id) ==
    /\ nreq < MaxRequests
    /\ nreq' = nreq + 1
    /\ lastResp' =
           IF ~OwnTask(task_id, user_id) THEN Resp("approve", 404, task_id, "not found")
           ELSE IF tasks[task_id].status # "pending"
           THEN Resp("approve", 400, task_id, "Task must be PENDING to approve")
           ELSE Resp("approve", 500, task_id, "NameError")
    /\ UNCHANGED <<tasks, txns, today, orch, exe, events, delivered, approved,
                   budgetCall, resend_api_key,
                   audit, intentCall, rulesCall, agentCall, sanitized,
                   decompCall, typeCall, bus,
                   scrapeCall, sess>>

\* POST /{task_id}/verify: the same, with in_progress and pending both accepted.
VerifyEndpoint(user_id, task_id, verified) ==
    /\ nreq < MaxRequests
    /\ nreq' = nreq + 1
    /\ lastResp' =
           IF ~OwnTask(task_id, user_id) THEN Resp("verify", 404, task_id, "not found")
           ELSE IF tasks[task_id].status \notin {"in_progress", "pending"}
           THEN Resp("verify", 400, task_id, "Task must be IN_PROGRESS or PENDING to verify")
           ELSE Resp("verify", 500, task_id, "NameError")
    /\ UNCHANGED <<tasks, txns, today, orch, exe, events, delivered, approved,
                   budgetCall, resend_api_key,
                   audit, intentCall, rulesCall, agentCall, sanitized,
                   decompCall, typeCall, bus,
                   scrapeCall, sess>>

(***************************************************************************)
(* ApprovalService (app/services/approval_service.py).                     *)
(***************************************************************************)
\* A faulty variant of approve_task: the status is not looked at.
approve_task_NoStatusCheck(task_id, user_id) ==
    IF task_id \notin DOMAIN tasks
    THEN /\ lastResp' = Resp("approve_task", 0, task_id, "ValueError: not found")
         /\ UNCHANGED <<tasks, approved>>
    ELSE /\ tasks' = [tasks EXCEPT ![task_id].status = "in_progress",
                                   ![task_id].started_at = "utcnow"]
         /\ approved' = approved \cup {task_id}
         /\ lastResp' = Resp("approve_task", 1, task_id, None)

\* The approval record is written into result["approval_request"] when the task
\* has one.
approve_task(task_id, user_id) ==
    IF task_id \notin DOMAIN tasks
    THEN /\ lastResp' = Resp("approve_task", 0, task_id, "ValueError: not found")
         /\ UNCHANGED <<tasks, approved>>
    ELSE IF tasks[task_id].status # "pending"
    THEN /\ lastResp' = Resp("approve_task", 0, task_id, "ValueError: must be PENDING")
         /\ UNCHANGED <<tasks, approved>>
    ELSE /\ tasks' = [tasks EXCEPT
                         ![task_id].status = "in_progress",
                         ![task_id].started_at = "utcnow",
                         ![task_id].approved_by =
                             IF tasks[task_id].approval_request THEN user_id ELSE @]
         /\ approved' = approved \cup {task_id}
         /\ lastResp' = Resp("approve_task", 1, task_id, None)

ApproveTask(task_id, user_id) ==
    /\ nreq < MaxRequests
    /\ nreq' = nreq + 1
    /\ approve_task(task_id, user_id)
    /\ UNCHANGED <<txns, today, orch, exe, events, delivered, budgetCall,
                   resend_api_key,
                   audit, intentCall, rulesCall, agentCall, sanitized,
                   decompCall, typeCall, bus,
                   scrapeCall, sess>>

reject_task(task_id, user_id) ==
    IF task_id \notin DOMAIN tasks
    THEN /\ lastResp' = Resp("reject_task", 0, task_id, "ValueError: not found")
         /\ UNCHANGED tasks
    ELSE IF tasks[task_id].status # "pending"
    THEN /\ lastResp' = Resp("reject_task", 0, task_id, "ValueError: must be PENDING")
         /\ UNCHANGED tasks
    ELSE /\ tasks' = [tasks EXCEPT ![task_id].status = "cancelled",
                                   ![task_id].error = "Rejected"]
         /\ lastResp' = Resp("reject_task", 1, task_id, None)

RejectTask(task_id, user_id) ==
    /\ nreq < MaxRequests
    /\ nreq' = nreq + 1
    /\ reject_task(task_id, user_id)
    /\ UNCHANGED <<txns, today, orch, exe, events, delivered, approved, budgetCall,
                   resend_api_key,
                   audit, intentCall, rulesCall, agentCall, sanitized,
                   decompCall, typeCall, bus,
                   scrapeCall, sess>>

\* create_approval_request: the request is stored on the task, which stays (or is
\* put) pending when approval is required and is put in_progress otherwise.
create_approval_request(task_id, requires_approval) ==
    IF task_id \notin DOMAIN tasks
    THEN /\ lastResp' = Resp("create_approval_request", 0, task_id, "ValueError: not found")
         /\ UNCHANGED tasks
    ELSE /\ tasks' = [tasks EXCEPT
                         ![task_id].approval_request = TRUE,
                         ![task_id].status =
                             IF requires_approval THEN "pending" ELSE "in_progress",
                         ![task_id].started_at =
                             IF requires_approval THEN @ ELSE "utcnow"]
         /\ lastResp' = Resp("create_approval_request", 1, task_id, None)

CreateApprovalRequest(task_id, requires_approval) ==
    /\ nreq < MaxRequests
    /\ nreq' = nreq + 1
    /\ create_approval_request(task_id, requires_approval)
    /\ UNCHANGED <<txns, today, orch, exe, events, delivered, approved, budgetCall,
                   resend_api_key,
                   audit, intentCall, rulesCall, agentCall, sanitized,
                   decompCall, typeCall, bus,
                   scrapeCall, sess>>

(***************************************************************************)
(* Agent execute endpoint (app/api/v1/agents.py).                          *)
(***************************************************************************)
\* POST /{agent_type}/execute: the request's dict goes straight to agent.run.
ExecuteAgent(user_id, agent_type, task, mail_ok) ==
    /\ nreq < MaxRequests
    /\ nreq' = nreq + 1
    /\ IF agent_type # "communication"
       THEN /\ lastResp' = Resp("execute_agent", 404, 0, "Agent type not found")
            /\ UNCHANGED delivered
       ELSE LET result == run(task, resend_api_key, mail_ok)
            IN  /\ lastResp' = Resp("execute_agent", 200, 0,
                       IF result.success
                       THEN (IF result.sent THEN "sent" ELSE "drafted")
                       ELSE result.error)
                /\ delivered' = IF result.sent THEN delivered \cup {user_id} ELSE delivered
    /\ UNCHANGED <<tasks, txns, today, orch, exe, events, approved, budgetCall,
                   resend_api_key,
                   audit, intentCall, rulesCall, agentCall, sanitized,
                   decompCall, typeCall, bus,
                   scrapeCall, sess>>

\* Requests to the endpoint: every task dict for the registered communication
\* agent, one for an agent type that is not registered.
AgentRequests ==
    {[agent_type |-> "communication", task |-> [action |-> a, to |-> to]] :
         a \in AgentActions, to \in Recipients}
        \cup {[agent_type |-> "translation", task |-> [action |-> "draft", to |-> None]]}

(***************************************************************************)
(* The program.                                                            *)
(***************************************************************************)
Next ==
    \/ \E u \in Users, m \in Messages : StartOrchestrate(u, m)
    \/ OrchParse
    \/ OrchPersist
    \/ OrchSubtask
    \/ OrchCatch
    \/ OrchPropagate
    \/ OrchFinish
    \/ ExecParse
    \/ ExecCreate
    \/ \E u \in Users, m \in Messages : CreateTaskMessage(u, m)
    \/ \E u \in Users : CreateTaskManual(u)
    \/ \E u \in Users, t \in TaskIds : ApproveEndpoint(u, t)
    \/ \E u \in Users, t \in TaskIds, verified \in BOOLEAN : VerifyEndpoint(u, t, verified)
    \/ \E u \in Users, t \in TaskIds : ApproveTask(t, u)
    \/ \E u \in Users, t \in TaskIds : RejectTask(t, u)
    \/ \E u \in Users, r \in AgentRequests, mail_ok \in BOOLEAN :
          ExecuteAgent(u, r.agent_type, r.task, mail_ok)

Spec == Init /\ [][Next]_vars

(***************************************************************************)
(* BudgetService.check_budget on its own, over every small transactions    *)
(* table.                                                                  *)
(***************************************************************************)
TxnCosts == {950, 29960}
TxnStatuses == {"success", "failed"}
Amounts == {40, 50, 100}
Periods == {"daily", "monthly", "weekly"}

Transaction == [created_by : Users, status : TxnStatuses, cost : TxnCosts, date : Dates]

TxnTables == UNION {[1..n -> Transaction] : n \in 0..MaxTxns}

CheckBudget(user_id, amount, period) ==
    /\ LET r == check_budget(txns, today, user_id, amount, period)
       IN  budgetCall' = [user |-> user_id, amount |-> amount, period |-> period,
                          allowed |-> r.allowed, error |-> r.error]
    /\ UNCHANGED <<tasks, txns, today, orch, exe, events, delivered, approved, lastResp,
                   resend_api_key, nreq,
                   audit, intentCall, rulesCall, agentCall, sanitized,
                   decompCall, typeCall, bus,
                   scrapeCall, sess>>

InitBudget ==
    /\ tasks = <<>>
    /\ txns \in TxnTables
    /\ today = 203
    /\ orch = IdleOrch
    /\ exe = IdleExec
    /\ events = <<>>
    /\ delivered = {}
    /\ approved = {}
    /\ lastResp = NoResp
    /\ budgetCall = NoBudgetCall
    /\ resend_api_key = FALSE
    /\ nreq = 0
    /\ audit = <<>>
    /\ intentCall = NoIntentCall
    /\ rulesCall = NoRulesCall
    /\ agentCall = NoAgentCall
    /\ sanitized = {}
    /\ decompCall = NoDecompCall
    /\ typeCall = NoTypeCall
    /\ bus = IdleBus
    /\ scrapeCall = NoScrapeCall
    /\ sess = NoSessions

NextBudget == \E u \in Users, amount \in Amounts, period \in Periods : CheckBudget(u, amount, period)

SpecBudget == InitBudget /\ [][NextBudget]_vars

(***************************************************************************)
(* The intent classifier on its own: parse_intent over every outcome of    *)
(* the two backends and apply_business_rules over every IntentResult.      *)
(***************************************************************************)
\* One parse_intent call on the inputs drawn in InitIntent.
ParseIntent ==
    /\ ~intentCall.called
    /\ intentCall' =
          [intentCall EXCEPT
              !.called = TRUE,
              !.backends = backends_called(intentCall.groq, intentCall.gemini),
              !.result = parse_intent(intentCall.msg, intentCall.groq, intentCall.gemini)]
    /\ UNCHANGED <<tasks, txns, today, orch, exe, events, delivered, approved, lastResp,
                   budgetCall, resend_api_key, nreq, audit, rulesCall, agentCall, sanitized,
                   decompCall, typeCall, bus,
                   scrapeCall, sess>>

InitIntent ==
    /\ tasks = <<>>
    /\ txns = <<>>
    /\ today = 203
    /\ orch = IdleOrch
    /\ exe = IdleExec
    /\ events = <<>>
    /\ delivered = {}
    /\ approved = {}
    /\ lastResp = NoResp
    /\ budgetCall = NoBudgetCall
    /\ resend_api_key = FALSE
    /\ nreq = 0
    /\ audit = <<>>
    /\ \E m \in RuleMessages, groq \in IntentOutcomes, gemini \in IntentOutcomes :
          intentCall = [NoIntentCall EXCEPT !.msg = m, !.groq = groq, !.gemini = gemini]
    /\ rulesCall = NoRulesCall
    /\ agentCall = NoAgentCall
    /\ sanitized = {}
    /\ decompCall = NoDecompCall
    /\ typeCall = NoTypeCall
    /\ bus = IdleBus
    /\ scrapeCall = NoScrapeCall
    /\ sess = NoSessions

NextIntent == ParseIntent

SpecIntent == InitIntent /\ [][NextIntent]_vars

\* One apply_business_rules call on the inputs drawn in InitRules.
ApplyBusinessRules ==
    /\ ~rulesCall.called
    /\ rulesCall' =
          [rulesCall EXCEPT
              !.called = TRUE,
              !.result = apply_business_rules(rulesCall.input, rulesCall.msg)]
    /\ UNCHANGED <<tasks, txns, today, orch, exe, events, delivered, approved, lastResp,
                   budgetCall, resend_api_key, nreq, audit, intentCall, agentCall, sanitized,
                   decompCall, typeCall, bus,
                   scrapeCall, sess>>

InitRules ==
    /\ tasks = <<>>
    /\ txns = <<>>
    /\ today = 203
    /\ orch = IdleOrch
    /\ exe = IdleExec
    /\ events = <<>>
    /\ delivered = {}
    /\ approved = {}
    /\ lastResp = NoResp
    /\ budgetCall = NoBudgetCall
    /\ resend_api_key = FALSE
    /\ nreq = 0
    /\ audit = <<>>
    /\ intentCall = NoIntentCall
    /\ \E m \in RuleMessages, r \in IntentResults :
          rulesCall = [NoRulesCall EXCEPT !.msg = m, !.input = r]
    /\ agentCall = NoAgentCall
    /\ sanitized = {}
    /\ decompCall = NoDecompCall
    /\ typeCall = NoTypeCall
    /\ bus = IdleBus
    /\ scrapeCall = NoScrapeCall
    /\ sess = NoSessions

NextRules == ApplyBusinessRules

SpecRules == InitRules /\ [][NextRules]_vars

(***************************************************************************)
(* BaseAgent.run on its own: over the CommunicationAgent with every task   *)
(* dict, key setting and mail outcome, and over an arbitrary agent variant *)
(* with every outcome of its three methods.                                *)
(***************************************************************************)
\* One run call on the inputs drawn in InitAgent.
RunAgent ==
    /\ ~agentCall.called
    /\ LET r == BaseAgent_run(agentCall.validation, agentCall.estimation,
                              agentCall.execution)
       IN  agentCall' = [agentCall EXCEPT !.called = TRUE,
                                          !.raised = r.raised,
                                          !.executed = r.executed,
                                          !.result = r.result]
    /\ UNCHANGED <<tasks, txns, today, orch, exe, events, delivered, approved, lastResp,
                   budgetCall, resend_api_key, nreq, audit, intentCall, rulesCall,
                   sanitized,
                   decompCall, typeCall, bus,
                   scrapeCall, sess>>

CommunicationCalls ==
    {[NoAgentCall EXCEPT
         !.agent = "communication", !.task = [action |-> a, to |-> to],
         !.resend_api_key = key, !.mail_ok = mail_ok,
         !.validation = Returns(validate_input([action |-> a, to |-> to])),
         !.estimation = Returns(estimate_cost_and_risk([action |-> a, to |-> to])),
         !.execution = execute_outcome([action |-> a, to |-> to], key, mail_ok)] :
       a \in AgentActions, to \in Recipients, key \in BOOLEAN, mail_ok \in BOOLEAN}

VariantCalls ==
    {[NoAgentCall EXCEPT
         !.agent = "variant", !.validation = v, !.estimation = est, !.execution = ex] :
       v \in Validations, est \in Estimations, ex \in Executions}

InitAgent ==
    /\ tasks = <<>>
    /\ txns = <<>>
    /\ today = 203
    /\ orch = IdleOrch
    /\ exe = IdleExec
    /\ events = <<>>
    /\ delivered = {}
    /\ approved = {}
    /\ lastResp = NoResp
    /\ budgetCall = NoBudgetCall
    /\ resend_api_key = FALSE
    /\ nreq = 0
    /\ audit = <<>>
    /\ intentCall = NoIntentCall
    /\ rulesCall = NoRulesCall
    /\ agentCall \in CommunicationCalls \cup VariantCalls
    /\ sanitized = {}
    /\ decompCall = NoDecompCall
    /\ typeCall = NoTypeCall
    /\ bus = IdleBus
    /\ scrapeCall = NoScrapeCall
    /\ sess = NoSessions

NextAgent == RunAgent

SpecAgent == InitAgent /\ [][NextAgent]_vars

(***************************************************************************)
(* The execution loop of orchestrate on its own, over every subtask list   *)
(* whose dependencies reference earlier positions (the shape               *)
(* _decompose_intent guarantees), not only the two lists its templates     *)
(* build.  The rows are committed and the frame is at the head of the loop.*)
(***************************************************************************)
\* The dependency lists of n subtasks: position j names positions before j.
DependencyLists(n) ==
    {d \in [1..n -> SUBSET (0..(n - 1))] : \A j \in 1..n : d[j] \subseteq 0..(j - 2)}

LoopSubtasks ==
    UNION {{[j \in 1..n |->
                [title |-> "Execute Task", description |-> MsgSimple,
                 agent_type |-> None, dependencies |-> d[j], action |-> None]] :
              d \in DependencyLists(n)} : n \in 2..MaxSubtasks}

InitLoop ==
    /\ \E subtasks \in LoopSubtasks :
          /\ tasks = PersistedRows("u1", 1, subtasks)
          /\ orch = LoopEntry([IdleOrch EXCEPT !.user = "u1", !.msg = MsgSimple],
                              1, subtasks)
    /\ txns = <<>>
    /\ today = 203
    /\ exe = IdleExec
    /\ events = PersistEvents(1)
    /\ delivered = {}
    /\ approved = {}
    /\ lastResp = NoResp
    /\ budgetCall = NoBudgetCall
    /\ resend_api_key = FALSE
    /\ nreq = 0
    /\ audit = <<>>
    /\ intentCall = NoIntentCall
    /\ rulesCall = NoRulesCall
    /\ agentCall = NoAgentCall
    /\ sanitized = {}
    /\ decompCall = NoDecompCall
    /\ typeCall = NoTypeCall
    /\ bus = IdleBus
    /\ scrapeCall = NoScrapeCall
    /\ sess = NoSessions

NextLoop ==
    \/ OrchSubtask
    \/ ExecParse
    \/ ExecCreate
    \/ OrchCatch
    \/ OrchFinish

SpecLoop == InitLoop /\ [][NextLoop]_vars

\* The event loop resumes the orchestrate coroutine whenever the call it awaits
\* has returned or raised.
SpecLoopFair == SpecLoop /\ WF_vars(NextLoop)

(***************************************************************************)
(* _is_complex_intent and _decompose_intent as pure functions of the       *)
(* message, over every message of up to MaxWords words of a vocabulary     *)
(* that has the keywords of both templates, other research keywords,       *)
(* the conjunction and a neutral word.                                     *)
(***************************************************************************)
DecompWords ==
    {"research", "Research", "find", "search", "and", "draft", "email", "prices", "laptops"}

DecompMessages == UNION {[1..n -> DecompWords] : n \in 1..MaxWords}

Decompose ==
    /\ ~decompCall.called
    /\ decompCall' = [decompCall EXCEPT
                         !.called = TRUE,
                         !.is_complex = _is_complex_intent(decompCall.msg),
                         !.subtasks = _decompose_intent(decompCall.msg)]
    /\ UNCHANGED <<tasks, txns, today, orch, exe, events, delivered, approved, lastResp,
                   budgetCall, resend_api_key, nreq,
                   audit, intentCall, rulesCall, agentCall, sanitized,
                   typeCall, bus,
                   scrapeCall, sess>>

InitDecompose ==
    /\ \E msg \in DecompMessages : decompCall = [NoDecompCall EXCEPT !.msg = msg]
    /\ tasks = <<>>
    /\ txns = <<>>
    /\ today = 203
    /\ orch = IdleOrch
    /\ exe = IdleExec
    /\ events = <<>>
    /\ delivered = {}
    /\ approved = {}
    /\ lastResp = NoResp
    /\ budgetCall = NoBudgetCall
    /\ resend_api_key = FALSE
    /\ nreq = 0
    /\ audit = <<>>
    /\ intentCall = NoIntentCall
    /\ rulesCall = NoRulesCall
    /\ agentCall = NoAgentCall
    /\ sanitized = {}
    /\ typeCall = NoTypeCall
    /\ bus = IdleBus
    /\ scrapeCall = NoScrapeCall
    /\ sess = NoSessions

NextDecompose == Decompose

SpecDecompose == InitDecompose /\ [][NextDecompose]_vars

(***************************************************************************)
(* EventService (app/services/event_service.py): subscribe, unsubscribe    *)
(* and publish.  A callback is known by what it does when awaited: the     *)
(* SSE endpoint's callback puts the event on an unbounded queue and        *)
(* returns; "broken" stands for a callback that throws.  No callback       *)
(* suspends, so the subscriber lists do not change while publish runs.     *)
(* publish is the call orchestrate makes right after committing the rows   *)
(* of a two-step request.                                                  *)
(***************************************************************************)
Callbacks == {"event_queue.put", "broken"}

CallbackRaises(callback) == callback = "broken"

\* list.remove(callback): the first occurrence goes.
RECURSIVE Remove(_, _)
Remove(list, callback) ==
    IF list = <<>> THEN <<>>
    ELSE IF Head(list) = callback THEN Tail(list)
    ELSE <<Head(list)>> \o Remove(Tail(list), callback)

\* A faulty variant of the loop body: the callback is awaited outside any try.
publish_callback_NoHandler(pub, callback) ==
    IF CallbackRaises(callback)
    THEN [pub EXCEPT !.pc = "returned", !.called = Append(@, callback), !.raised = TRUE]
    ELSE [pub EXCEPT !.i = @ + 1, !.called = Append(@, callback)]

\* A faulty variant of the loop body: the index stays on the callback.
publish_callback_Redeliver(pub, callback) ==
    [pub EXCEPT !.called = Append(@, callback)]

\* One pass of the loop body: await callback(event); an Exception is logged.
publish_callback(pub, callback) ==
    [pub EXCEPT !.i = @ + 1, !.called = Append(@, callback)]

EventRows == PersistedRows("u1", 1, _decompose_intent(MsgComparePrices))

\* A callback that awaits something that is not ready gives the event loop to
\* other requests; the SSE endpoint's own callback never does.
Suspends(callback) == callback = "slow"

\* The list object the running publish iterates, as it is now.
IteratedList(b) == IF b.pub.detached THEN <<>> ELSE b._subscribers[b.pub.user]

BusCall(op, user_id, callback) == [op |-> op, user |-> user_id, callback |-> callback]

subscribe(b, user_id, callback) ==
    [b EXCEPT !._subscribers[user_id] = Append(@, callback),
              !.keys = @ \cup {user_id}]

\* A faulty variant of unsubscribe: the emptied list stays in the table.
unsubscribe_NoDelete(b, user_id, callback) ==
    IF user_id \notin b.keys THEN b
    ELSE [b EXCEPT !._subscribers[user_id] = Remove(@, callback)]

\* list.remove raises ValueError for a callback that is not in the list, which
\* is passed over; the key is deleted with the last callback, and a publish that
\* is iterating the list keeps the emptied object.
unsubscribe(b, user_id, callback) ==
    IF user_id \notin b.keys THEN b
    ELSE LET list == Remove(b._subscribers[user_id], callback)
         IN  [b EXCEPT !._subscribers[user_id] = list,
                       !.keys = IF list = <<>> THEN @ \ {user_id} ELSE @,
                       !.pub.detached =
                           \/ @
                           \/ /\ list = <<>>
                              /\ b.pub.pc \in {"loop", "suspended"}
                              /\ b.pub.user = user_id]

Subscribe(user_id, callback) ==
    /\ bus.pub.pc \in {"idle", "returned", "suspended"}
    /\ Len(bus._subscribers[user_id]) < MaxSubscribers
    /\ bus' = [subscribe(bus, user_id, callback) EXCEPT
                  !.last = BusCall("subscribe", user_id, callback)]
    /\ UNCHANGED <<tasks, txns, today, orch, exe, events, delivered, approved, lastResp,
                   budgetCall, resend_api_key, nreq,
                   audit, intentCall, rulesCall, agentCall, sanitized,
                   decompCall, typeCall,
                   scrapeCall, sess>>

Unsubscribe(user_id, callback) ==
    /\ bus.pub.pc \in {"idle", "returned", "suspended"}
    /\ bus' = [unsubscribe(bus, user_id, callback) EXCEPT
                  !.last = BusCall("unsubscribe", user_id, callback)]
    /\ UNCHANGED <<tasks, txns, today, orch, exe, events, delivered, approved, lastResp,
                   budgetCall, resend_api_key, nreq,
                   audit, intentCall, rulesCall, agentCall, sanitized,
                   decompCall, typeCall,
                   scrapeCall, sess>>

\* publish up to the loop: a user without an entry skips it.
StartPublish(user_id) ==
    /\ bus.pub.pc \in {"idle", "returned"}
    /\ bus' = [bus EXCEPT
                  !.pub = [NoPublish EXCEPT
                              !.pc = IF user_id \in bus.keys THEN "loop" ELSE "returned",
                              !.user = user_id, !.i = 1,
                              !.before = bus._subscribers[user_id]],
                  !.last = BusCall("publish", user_id, None)]
    /\ UNCHANGED <<tasks, txns, today, orch, exe, events, delivered, approved, lastResp,
                   budgetCall, resend_api_key, nreq,
                   audit, intentCall, rulesCall, agentCall, sanitized,
                   decompCall, typeCall,
                   scrapeCall, sess>>

\* The loop body: the callback at the index is awaited; one that suspends leaves
\* publish inside the await.
PublishCallback ==
    /\ bus.pub.pc = "loop"
    /\ bus.pub.i <= Len(IteratedList(bus))
    /\ LET callback == IteratedList(bus)[bus.pub.i]
       IN  bus' = [bus EXCEPT !.pub =
                      IF Suspends(callback)
                      THEN [@ EXCEPT !.pc = "suspended", !.called = Append(@, callback)]
                      ELSE publish_callback(@, callback)]
    /\ UNCHANGED <<tasks, txns, today, orch, exe, events, delivered, approved, lastResp,
                   budgetCall, resend_api_key, nreq,
                   audit, intentCall, rulesCall, agentCall, sanitized,
                   decompCall, typeCall,
                   scrapeCall, sess>>

\* The awaited callback returns and the loop goes to the next index.
ResumeCallback ==
    /\ bus.pub.pc = "suspended"
    /\ bus' = [bus EXCEPT !.pub.pc = "loop", !.pub.i = @ + 1]
    /\ UNCHANGED <<tasks, txns, today, orch, exe, events, delivered, approved, lastResp,
                   budgetCall, resend_api_key, nreq,
                   audit, intentCall, rulesCall, agentCall, sanitized,
                   decompCall, typeCall,
                   scrapeCall, sess>>

PublishReturn ==
    /\ bus.pub.pc = "loop"
    /\ bus.pub.i > Len(IteratedList(bus))
    /\ bus' = [bus EXCEPT !.pub.pc = "returned"]
    /\ UNCHANGED <<tasks, txns, today, orch, exe, events, delivered, approved, lastResp,
                   budgetCall, resend_api_key, nreq,
                   audit, intentCall, rulesCall, agentCall, sanitized,
                   decompCall, typeCall,
                   scrapeCall, sess>>

InitEvents ==
    /\ tasks = EventRows
    /\ txns = <<>>
    /\ today = 203
    /\ orch = IdleOrch
    /\ exe = IdleExec
    /\ events = <<>>
    /\ delivered = {}
    /\ approved = {}
    /\ lastResp = NoResp
    /\ budgetCall = NoBudgetCall
    /\ resend_api_key = FALSE
    /\ nreq = 0
    /\ audit = <<>>
    /\ intentCall = NoIntentCall
    /\ rulesCall = NoRulesCall
    /\ agentCall = NoAgentCall
    /\ sanitized = {}
    /\ decompCall = NoDecompCall
    /\ typeCall = NoTypeCall
    /\ bus = IdleBus
    /\ scrapeCall = NoScrapeCall
    /\ sess = NoSessions

NextEvents ==
    \/ \E u \in Users, c \in Callbacks : Subscribe(u, c)
    \/ \E u \in Users, c \in Callbacks : Unsubscribe(u, c)
    \/ \E u \in Users : StartPublish(u)
    \/ PublishCallback
    \/ PublishReturn

SpecEvents == InitEvents /\ [][NextEvents]_vars

(***************************************************************************)
(* EventService with callbacks that may suspend: while publish waits       *)
(* inside a callback, other requests subscribe and unsubscribe.            *)
(***************************************************************************)
AsyncCallbacks == {"event_queue.put", "slow"}

NextEventsAsync ==
    \/ \E c \in AsyncCallbacks : Subscribe("u1", c)
    \/ \E c \in AsyncCallbacks : Unsubscribe("u1", c)
    \/ StartPublish("u1")
    \/ PublishCallback
    \/ ResumeCallback
    \/ PublishReturn

SpecEventsAsync == InitEvents /\ [][NextEventsAsync]_vars

(***************************************************************************)
(* _determine_agent_type as a pure function of the intent label and the    *)
(* command, over labels that carry keywords of none, one or several        *)
(* categories and over every command the function looks for.               *)
(***************************************************************************)
TypeIntents ==
    {"research_topic", "send_email", "purchase_item", "delete_account", "unknown",
     "send_research_email", "buy_and_email", "Draft_Reply", "compare_prices",
     "find_product", "lookup_and_message"}

TypeCommands == {None, "research", "email", "send", "purchase", "buy", "delete_account"}

DetermineAgentType ==
    /\ ~typeCall.called
    /\ typeCall' = [typeCall EXCEPT
                       !.called = TRUE,
                       !.agent_type = _determine_agent_type(
                           [intent |-> typeCall.intent, command |-> typeCall.command])]
    /\ UNCHANGED <<tasks, txns, today, orch, exe, events, delivered, approved, lastResp,
                   budgetCall, resend_api_key, nreq,
                   audit, intentCall, rulesCall, agentCall, sanitized,
                   decompCall, bus,
                   scrapeCall, sess>>

InitAgentType ==
    /\ \E intent \in TypeIntents, command \in TypeCommands :
          typeCall = [NoTypeCall EXCEPT !.intent = intent, !.command = command]
    /\ tasks = <<>>
    /\ txns = <<>>
    /\ today = 203
    /\ orch = IdleOrch
    /\ exe = IdleExec
    /\ events = <<>>
    /\ delivered = {}
    /\ approved = {}
    /\ lastResp = NoResp
    /\ budgetCall = NoBudgetCall
    /\ resend_api_key = FALSE
    /\ nreq = 0
    /\ audit = <<>>
    /\ intentCall = NoIntentCall
    /\ rulesCall = NoRulesCall
    /\ agentCall = NoAgentCall
    /\ sanitized = {}
    /\ decompCall = NoDecompCall
    /\ bus = IdleBus
    /\ scrapeCall = NoScrapeCall
    /\ sess = NoSessions

NextAgentType == DetermineAgentType

SpecAgentType == InitAgentType /\ [][NextAgentType]_vars

(***************************************************************************)
(* ApprovalService on its own: create_approval_request, approve_task and   *)
(* reject_task called on a table of one or two stored tasks in any of the  *)
(* statuses the program stores.                                            *)
(***************************************************************************)
StoredStatuses == {"pending", "in_progress", "failed", "cancelled"}

ApprovalTables ==
    UNION {[1..n -> {Task(st, "u1", "manual", 0, 0) : st \in StoredStatuses}] : n \in 1..2}

InitApproval ==
    /\ tasks \in ApprovalTables
    /\ txns = <<>>
    /\ today = 203
    /\ orch = IdleOrch
    /\ exe = IdleExec
    /\ events = <<>>
    /\ delivered = {}
    /\ approved = {}
    /\ lastResp = NoResp
    /\ budgetCall = NoBudgetCall
    /\ resend_api_key = FALSE
    /\ nreq = 0
    /\ audit = <<>>
    /\ intentCall = NoIntentCall
    /\ rulesCall = NoRulesCall
    /\ agentCall = NoAgentCall
    /\ sanitized = {}
    /\ decompCall = NoDecompCall
    /\ typeCall = NoTypeCall
    /\ bus = IdleBus
    /\ scrapeCall = NoScrapeCall
    /\ sess = NoSessions

NextApproval ==
    \/ \E t \in TaskIds, requires_approval \in BOOLEAN :
          CreateApprovalRequest(t, requires_approval)
    \/ \E u \in Users, t \in TaskIds : ApproveTask(t, u)
    \/ \E u \in Users, t \in TaskIds : RejectTask(t, u)

SpecApproval == InitApproval /\ [][NextApproval]_vars

(***************************************************************************)
(* approve_task and reject_task called from concurrent requests, each with *)
(* its own session (app/database.py get_db).  A call suspends at the       *)
(* select and at the commit; between them it works on the row as its       *)
(* session read it.  The commit writes the attributes the call assigned.   *)
(***************************************************************************)
Decisions == {"approve_task", "reject_task"}

\* The call up to the return of the select: the session holds the row read.
SelectForDecision(op, task_id, user_id) ==
    /\ nreq < MaxRequests
    /\ nreq' = nreq + 1
    /\ sess' = Append(sess,
                  [op |-> op, task_id |-> task_id, user |-> user_id, pc |-> "selected",
                   found |-> task_id \in DOMAIN tasks,
                   status |-> IF task_id \in DOMAIN tasks
                              THEN tasks[task_id].status ELSE None,
                   ok |-> FALSE])
    /\ UNCHANGED <<tasks, txns, today, orch, exe, events, delivered, approved, lastResp,
                   budgetCall, resend_api_key,
                   audit, intentCall, rulesCall, agentCall, sanitized,
                   decompCall, typeCall, bus, scrapeCall>>

\* The rest of the call: the checks on the row read, the writes, the commit.
CommitDecision(k) ==
    /\ k \in DOMAIN sess
    /\ sess[k].pc = "selected"
    /\ LET s == sess[k]
           t == s.task_id
       IN  IF ~s.found
           THEN /\ lastResp' = Resp(s.op, 0, t, "ValueError: not found")
                /\ sess' = [sess EXCEPT ![k].pc = "raised"]
                /\ UNCHANGED <<tasks, approved>>
           ELSE IF s.status # "pending"
           THEN /\ lastResp' = Resp(s.op, 0, t, "ValueError: must be PENDING")
                /\ sess' = [sess EXCEPT ![k].pc = "raised"]
                /\ UNCHANGED <<tasks, approved>>
           ELSE /\ tasks' =
                      IF s.op = "approve_task"
                      THEN [tasks EXCEPT
                               ![t].status = "in_progress",
                               ![t].started_at = "utcnow",
                               ![t].approved_by =
                                   IF tasks[t].approval_request THEN s.user ELSE @]
                      ELSE [tasks EXCEPT ![t].status = "cancelled",
                                         ![t].error = "Rejected"]
                /\ approved' = IF s.op = "approve_task" THEN approved \cup {t} ELSE approved
                /\ lastResp' = Resp(s.op, 1, t, None)
                /\ sess' = [sess EXCEPT ![k].pc = "returned", ![k].ok = TRUE]
    /\ UNCHANGED <<txns, today, orch, exe, events, delivered,
                   budgetCall, resend_api_key, nreq,
                   audit, intentCall, rulesCall, agentCall, sanitized,
                   decompCall, typeCall, bus, scrapeCall>>

InitRace == InitApproval

NextRace ==
    \/ \E op \in Decisions, u \in Users, t \in TaskIds : SelectForDecision(op, t, u)
    \/ \E k \in 1..MaxRequests : CommitDecision(k)

SpecRace == InitRace /\ [][NextRace]_vars

(***************************************************************************)
(* ResearchAgent._scrape_and_process and _scrape_url                       *)
(* (app/agents/research_agent.py).  A search result is known by its title, *)
(* whether it has a url, and what fetching its page does: the page has     *)
(* text, the page has no text, or the request fails.                       *)
(***************************************************************************)
PageOutcomes == {"text", "no text", "fails"}

\* _scrape_url: every exception of the request is caught and "" is returned.
_scrape_url(page) ==
    IF page = "text" THEN Returns("page text")
    ELSE IF page = "no text" THEN Returns("")
    ELSE Returns("")

\* The record appended when a page was scraped.
ScrapedRecord(source, content) ==
    [title |-> source.title, url |-> source.url, content |-> content, error |-> None]

\* The record appended by the except clause of the loop body.
FailedRecord(source, error) ==
    [title |-> source.title, url |-> source.url, content |-> "", error |-> error]

\* One pass of the loop body of _scrape_and_process: the records it appends.
ScrapeOne(source) ==
    IF source.url = "" THEN <<>>
    ELSE LET content == _scrape_url(source.page)
         IN  IF content.raises THEN <<FailedRecord(source, content.value)>>
             ELSE IF content.value # "" THEN <<ScrapedRecord(source, content.value)>>
             ELSE <<>>

RECURSIVE _scrape_and_process(_)
_scrape_and_process(sources) ==
    IF sources = <<>> THEN <<>>
    ELSE ScrapeOne(Head(sources)) \o _scrape_and_process(Tail(sources))

\* The sources whose page was requested.
Fetched(sources) == {sources[i].title : i \in {j \in DOMAIN sources : sources[j].url # ""}}

SourceKinds ==
    {[url |-> "", page |-> "fails"]}
        \cup {[url |-> "https://example.org", page |-> o] : o \in PageOutcomes}

SourceLists ==
    UNION {{[i \in 1..n |-> [title |-> i, url |-> k[i].url, page |-> k[i].page]] :
              k \in [1..n -> SourceKinds]} : n \in 1..MaxSources}

ScrapeAndProcess ==
    /\ ~scrapeCall.called
    /\ scrapeCall' = [scrapeCall EXCEPT
                         !.called = TRUE,
                         !.processed = _scrape_and_process(scrapeCall.sources),
                         !.fetched = Fetched(scrapeCall.sources)]
    /\ UNCHANGED <<tasks, txns, today, orch, exe, events, delivered, approved, lastResp,
                   budgetCall, resend_api_key, nreq,
                   audit, intentCall, rulesCall, agentCall, sanitized,
                   decompCall, typeCall, bus, sess>>

InitScrape ==
    /\ \E sources \in SourceLists : scrapeCall = [NoScrapeCall EXCEPT !.sources = sources]
    /\ tasks = <<>>
    /\ txns = <<>>
    /\ today = 203
    /\ orch = IdleOrch
    /\ exe = IdleExec
    /\ events = <<>>
    /\ delivered = {}
    /\ approved = {}
    /\ lastResp = NoResp
    /\ budgetCall = NoBudgetCall
    /\ resend_api_key = FALSE
    /\ nreq = 0
    /\ audit = <<>>
    /\ intentCall = NoIntentCall
    /\ rulesCall = NoRulesCall
    /\ agentCall = NoAgentCall
    /\ sanitized = {}
    /\ decompCall = NoDecompCall
    /\ typeCall = NoTypeCall
    /\ bus = IdleBus
    /\ sess = NoSessions

NextScrape == ScrapeAndProcess

SpecScrape == InitScrape /\ [][NextScrape]_vars

(***************************************************************************)
(* Properties.                                                             *)
(***************************************************************************)
\* The orchestrate call has created its subtasks (loop running or finished).
InMultiRun == orch.pc \in {"loop", "await", "done"} /\ orch.parent_id # 0

\* Positions of the subtasks the loop is done with.
Processed == {j \in 1..Len(orch.subtasks) : j < orch.k}

\* Subtask j lists a dependency whose subtask did not end completed.
HasFailedDependency(j) ==
    \E d \in orch.subtasks[j].dependencies :
        /\ d + 1 \in Processed
        /\ orch.created_subtasks[d + 1].status # "completed"

\* C1: in orchestrate, a subtask that lists a dependency which did not complete is
\* marked failed with the error "Dependencies not met" and execute_task is never
\* called for it; after the final commit its stored row says the same.
C1_DependentNotExecuted ==
    InMultiRun =>
        \A j \in Processed :
            HasFailedDependency(j) =>
                /\ orch.created_subtasks[j].status = "failed"
                /\ orch.created_subtasks[j].error = "Dependencies not met"
                /\ (j - 1) \notin orch.called
                /\ orch.pc = "done" =>
                       /\ tasks[orch.created_subtasks[j].id].status = "failed"
                       /\ tasks[orch.created_subtasks[j].id].error = "Dependencies not met"

\* C1 witness: a finished run in which subtask 0 was executed and failed and
\* subtask 1, which depends on it, is failed with "Dependencies not met", unexecuted.
C1_Witness ==
    /\ orch.pc = "done" /\ orch.outcome = "returned"
    /\ Len(orch.subtasks) = 2
    /\ orch.subtasks[2].dependencies = {0}
    /\ 0 \in orch.called /\ 1 \notin orch.called
    /\ orch.created_subtasks[1].status = "failed"
    /\ tasks[orch.created_subtasks[2].id].status = "failed"
    /\ tasks[orch.created_subtasks[2].id].error = "Dependencies not met"

\* An execute_task call has ended, by returning or by raising.
ExecEnded == exe.pc \in {"returned", "raised"}

\* The budget gate of execute_task rejects the call's intent.
BudgetRejects ==
    /\ Truthy(exe.intent.estimated_cost)
    /\ exe.intent.estimated_cost[1] > 0
    /\ ~check_budget(txns, today, exe.user, exe.intent.estimated_cost[1], "daily").allowed

\* C2: when the intent requires approval and the budget gate did not reject,
\* execute_task returns a pending task that carries an approval_request, has
\* published approval_needed for it, and has recorded no Transaction.
C2_ApprovalPause ==
    (ExecEnded /\ exe.intent.requires_approval /\ ~BudgetRejects) =>
        /\ exe.pc = "returned"
        /\ exe.task \in DOMAIN tasks
        /\ tasks[exe.task].status = "pending"
        /\ tasks[exe.task].approval_request
        /\ \E i \in DOMAIN events :
               events[i].type = "approval_needed" /\ events[i].task = exe.task
        /\ txns = <<>>

\* C3: no mail is delivered for an unapproved send: whenever the mail API has
\* accepted a message for a user, an approval was granted for a task of that user.
C3_NoUnapprovedDelivery ==
    \A u \in delivered : \E t \in approved : tasks[t].created_by = u

\* C4: execute_task returns a Task for every call: no call ends by raising, neither
\* into orchestrate nor into the create_task endpoint.
C4_AlwaysReturnsTask ==
    /\ exe.pc # "raised"
    /\ orch.outcome # "raised"
    /\ ~(lastResp.op = "create_task" /\ lastResp.code = 500)

\* C5: orchestrating "Research ... and draft an email" with every backend call
\* succeeding ends with a research subtask and a communication draft subtask
\* depending on [0], both executed and completed, and the parent completed.
C5_EndToEnd ==
    (orch.pc = "done" /\ orch.msg = MsgResearchEmail /\ orch.backends_ok) =>
        /\ orch.outcome = "returned"
        /\ Len(orch.subtasks) = 2
        /\ orch.subtasks[1].agent_type = "research"
        /\ orch.subtasks[2].agent_type = "communication"
        /\ orch.subtasks[2].action = "draft"
        /\ orch.subtasks[2].dependencies = {0}
        /\ orch.called = {0, 1}
        /\ \A j \in 1..2 : tasks[orch.created_subtasks[j].id].status = "completed"
        /\ tasks[orch.parent_id].status = "completed"

\* A multi-subtask orchestrate call has returned its parent task.
MultiRunFinished == orch.pc = "done" /\ orch.outcome = "returned" /\ orch.parent_id # 0

\* Every subtask row of the finished run is completed.
EverySubtaskCompleted ==
    \A j \in 1..Len(orch.subtasks) : tasks[orch.created_subtasks[j].id].status = "completed"

Forward(old, new) ==
    \/ old = new
    \/ old = "pending"
    \/ old = "in_progress" /\ new \in {"completed", "failed"}

\* C7: every change of a stored task's status moves forward; a completed, failed
\* or cancelled task never changes status again; cancelled is entered from pending.
C7_StatusMonotonic ==
    [][\A t \in DOMAIN tasks : Forward(tasks[t].status, tasks'[t].status)]_vars

\* C8: when the intent's cost is positive and check_budget rejects it,
\* execute_task returns the task failed with the gate's message, and no Transaction
\* is recorded.
C8_BudgetRejection ==
    (ExecEnded /\ BudgetRejects) =>
        /\ exe.pc = "returned"
        /\ exe.task \in DOMAIN tasks
        /\ tasks[exe.task].status = "failed"
        /\ tasks[exe.task].error = "Budget limit exceeded"
        /\ txns = <<>>

RECURSIVE SumOver(_)
SumOver(S) ==
    IF S = {} THEN 0
    ELSE LET i == CHOOSE i \in S : TRUE IN txns[i].cost + SumOver(S \ {i})

\* The transactions the stated rule counts for a user and a period.
Counted(user, period) ==
    {i \in DOMAIN txns :
        /\ txns[i].created_by = user
        /\ txns[i].status = "success"
        /\ IF period = "daily" THEN txns[i].date = today
           ELSE txns[i].date \in MonthStart(today)..today}

Limit(period) == IF period = "daily" THEN DAILY_BUDGET_LIMIT ELSE MONTHLY_BUDGET_LIMIT

\* C9: check_budget rejects iff the user's successful spend inside the period
\* window plus the amount exceeds the period limit; with 950 spent today, 100 is
\* rejected and 40 allowed; a request landing exactly on the limit is allowed.
C9_BudgetRule ==
    budgetCall.period \in {"daily", "monthly"} =>
        LET spent == SumOver(Counted(budgetCall.user, budgetCall.period))
        IN  /\ ~budgetCall.allowed <=> spent + budgetCall.amount > Limit(budgetCall.period)
            /\ (budgetCall.period = "daily" /\ spent = 950 /\ budgetCall.amount = 100)
                   => ~budgetCall.allowed
            /\ (budgetCall.period = "daily" /\ spent = 950 /\ budgetCall.amount = 40)
                   => budgetCall.allowed
            /\ spent + budgetCall.amount = Limit(budgetCall.period) => budgetCall.allowed

\* C9 witness: a daily check landing exactly on the limit (950 spent today, amount
\* 50) is allowed while a row of another user or a failed row of today is ignored.
C9_Witness ==
    /\ budgetCall.period = "daily" /\ budgetCall.amount = 50 /\ budgetCall.allowed
    /\ SumOver(Counted(budgetCall.user, "daily")) = 950
    /\ \E i \in DOMAIN txns :
           /\ txns[i].date = today
           /\ txns[i].created_by # budgetCall.user \/ txns[i].status = "failed"


(***************************************************************************)
(* C11: parse_intent always returns a result and follows a fixed order:    *)
(* Groq is invoked first and, when it succeeds, its result (after the      *)
(* business rules) is returned without invoking Gemini; Gemini is invoked  *)
(* only after Groq failed and its result is returned when it succeeds;     *)
(* when both fail the result is intent 'unknown', confidence 0.0,          *)
(* requires_approval true, risk_level 'high'.                              *)
(***************************************************************************)
C11_FallbackOrder ==
    intentCall.called =>
        LET c == intentCall
        IN  /\ c.result.intent # None
            /\ c.groq.ok =>
                  /\ c.backends = <<"groq">>
                  /\ c.result = apply_business_rules(c.groq.result, c.msg)
                  /\ c.result.intent = c.groq.result.intent
            /\ ~c.groq.ok =>
                  c.backends = <<"groq", "gemini">>
            /\ ~c.groq.ok /\ c.gemini.ok =>
                  /\ c.result = apply_business_rules(c.gemini.result, c.msg)
                  /\ c.result.intent = c.gemini.result.intent
            /\ ~c.groq.ok /\ ~c.gemini.ok =>
                  /\ c.result.intent = "unknown"
                  /\ c.result.confidence = 0
                  /\ c.result.requires_approval
                  /\ c.result.risk_level = "high"

\* Groq failed, Gemini answered, and the answer returned is Gemini's.
C11_Witness ==
    /\ intentCall.called
    /\ ~intentCall.groq.ok
    /\ intentCall.gemini.ok
    /\ intentCall.backends = <<"groq", "gemini">>
    /\ intentCall.gemini.result.intent = "delete_account"
    /\ intentCall.result.intent = "delete_account"

(***************************************************************************)
(* C12: apply_business_rules never turns requires_approval from true to    *)
(* false, never decreases risk_level in the order low < medium < high <    *)
(* critical (an absent level is below 'low'; 'critical' stays 'critical'), *)
(* changes estimated_cost only from None to 0.0, and leaves intent and     *)
(* confidence unchanged, also when several rules fire on one message.      *)
(***************************************************************************)
RiskRank(level) ==
    CASE level = "low" -> 1
      [] level = "medium" -> 2
      [] level = "high" -> 3
      [] level = "critical" -> 4
      [] OTHER -> 0

C12_RulesOnlyRaise ==
    rulesCall.called =>
        LET i == rulesCall.input
            o == rulesCall.result
        IN  /\ i.requires_approval => o.requires_approval
            /\ RiskRank(o.risk_level) >= RiskRank(i.risk_level)
            /\ i.risk_level = "critical" => o.risk_level = "critical"
            /\ o.estimated_cost # i.estimated_cost =>
                  i.estimated_cost = <<>> /\ o.estimated_cost = <<0>>
            /\ o.intent = i.intent
            /\ o.confidence = i.confidence
            /\ o.command = i.command

\* Rules 2, 3 and 4 fire on one message: a result with a known cost, 'low'
\* risk and no approval comes back with the same cost, 'high' risk and approval.
C12_Witness ==
    /\ rulesCall.called
    /\ ContainsAny(rulesCall.msg, SpendingKeywords)
    /\ ContainsAny(rulesCall.msg, DestructiveKeywords)
    /\ rulesCall.input.estimated_cost = <<50>>
    /\ rulesCall.input.risk_level = "low"
    /\ ~rulesCall.input.requires_approval
    /\ rulesCall.result.estimated_cost = <<50>>
    /\ rulesCall.result.risk_level = "high"
    /\ rulesCall.result.requires_approval

(***************************************************************************)
(* C13 as stated: for every message containing a destructive keyword the   *)
(* result of the business-rule pass has risk_level = 'high' and            *)
(* requires_approval = true, whatever the raw classifier returned.         *)
(***************************************************************************)
C13_DestructiveIsHigh ==
    rulesCall.called /\ ContainsAny(rulesCall.msg, DestructiveKeywords) =>
        /\ rulesCall.result.risk_level = "high"
        /\ rulesCall.result.requires_approval

(***************************************************************************)
(* C13 amended: for every message containing a destructive keyword the     *)
(* result has requires_approval = true and risk_level = 'high', except     *)
(* that a raw 'critical' level stays 'critical'.                           *)
(***************************************************************************)
C13_DestructiveAtLeastHigh ==
    rulesCall.called /\ ContainsAny(rulesCall.msg, DestructiveKeywords) =>
        /\ rulesCall.result.requires_approval
        /\ rulesCall.result.risk_level =
              IF rulesCall.input.risk_level = "critical" THEN "critical" ELSE "high"

\* A destructive message whose raw result was 'medium' without approval.
C13_Witness ==
    /\ rulesCall.called
    /\ rulesCall.msg = MsgDelete
    /\ rulesCall.input.risk_level = "medium"
    /\ ~rulesCall.input.requires_approval
    /\ rulesCall.result.risk_level = "high"
    /\ rulesCall.result.requires_approval

(***************************************************************************)
(* C14: for every message containing a spending keyword, the result of     *)
(* parse_intent (classification followed by the business rules) has        *)
(* requires_approval = true and an estimated_cost that is not None.        *)
(***************************************************************************)
C14_SpendingApproval ==
    intentCall.called /\ ContainsAny(intentCall.msg, SpendingKeywords) =>
        /\ intentCall.result.requires_approval
        /\ intentCall.result.estimated_cost # <<>>

(***************************************************************************)
(* C15: no unsanitized error text reaches persisted state: the             *)
(* error_message stored on a subtask whose execution raised or failed is a *)
(* text returned by PolicyService.sanitize_error_message.                  *)
(***************************************************************************)
C15_ErrorsSanitized ==
    \A i \in 1..Len(tasks) :
        /\ tasks[i].kind = "subtask"
        /\ tasks[i].status = "failed"
        /\ tasks[i].error \notin {None, "Dependencies not met"}
        => tasks[i].error \in sanitized

(***************************************************************************)
(* C16: an audit entry is written for every task creation and for every    *)
(* transition of a task into completed or failed, whatever the cause.      *)
(***************************************************************************)
Audited(event, task_id) ==
    \E n \in 1..Len(audit) : audit[n].event = event /\ audit[n].task = task_id

C16_AuditEveryTransition ==
    \A i \in 1..Len(tasks) :
        /\ Audited("task_created", i)
        /\ tasks[i].status = "completed" => Audited("task_completed", i)
        /\ tasks[i].status = "failed" => Audited("task_failed", i)

(***************************************************************************)
(* C17: every execute_task call in which the task leaves pending for       *)
(* in_progress (the intent needs no approval and the budget gate does not  *)
(* reject) has recorded one Transaction of the caller when it ends, with   *)
(* status success iff the task ended completed and cost the intent's       *)
(* estimated cost (0 when unknown).                                        *)
(***************************************************************************)
C17_OneTransaction ==
    (ExecEnded /\ ~exe.intent.requires_approval /\ ~BudgetRejects) =>
        /\ exe.pc = "returned"
        /\ \E n \in DOMAIN txns :
               /\ txns[n].created_by = exe.user
               /\ txns[n].cost = IF Truthy(exe.intent.estimated_cost)
                                 THEN exe.intent.estimated_cost[1] ELSE 0
               /\ txns[n].status = "success" <=> tasks[exe.task].status = "completed"
               /\ \A k \in DOMAIN txns : txns[k].created_by = exe.user => k = n

(***************************************************************************)
(* C18: a task whose estimated cost exceeds the per-task spend ceiling, or *)
(* whose resolved agent type is not in the tool allowlist, ends failed     *)
(* with the gate's reason, and no transaction cost is recorded.            *)
(***************************************************************************)
C18_PolicyGates ==
    (/\ ExecEnded
     /\ \/ ~check_max_spend_per_task(exe.intent.estimated_cost, MAX_SPEND_PER_TASK).allowed
        \/ ~check_tool_allowed(_determine_agent_type(exe.intent)).allowed) =>
        /\ exe.pc = "returned"
        /\ exe.task \in DOMAIN tasks
        /\ tasks[exe.task].status = "failed"
        /\ tasks[exe.task].error \in
              {check_max_spend_per_task(exe.intent.estimated_cost, MAX_SPEND_PER_TASK).error,
               check_tool_allowed(_determine_agent_type(exe.intent)).error}
        /\ txns = <<>>

(***************************************************************************)
(* C19: BaseAgent.run never raises, for any agent variant and any task: an *)
(* invalid input, an exception in validate_input, estimate_cost_and_risk   *)
(* or execute comes back as an AgentResult with success = false and an     *)
(* error text; when validation fails, execute is not invoked.              *)
(***************************************************************************)
C19_RunNeverRaises ==
    agentCall.called =>
        /\ ~agentCall.raised
        /\ (\/ agentCall.validation.raises
            \/ agentCall.validation.value # None
            \/ agentCall.estimation.raises
            \/ agentCall.execution.raises) =>
               /\ ~agentCall.result.success
               /\ agentCall.result.error # None
        /\ (agentCall.validation.raises \/ agentCall.validation.value # None) =>
               ~agentCall.executed

\* execute raised inside run and run returned a failed AgentResult.
C19_Witness ==
    /\ agentCall.called
    /\ ~agentCall.validation.raises
    /\ agentCall.validation.value = None
    /\ agentCall.execution.raises
    /\ agentCall.executed
    /\ ~agentCall.raised
    /\ ~agentCall.result.success
    /\ agentCall.result.error = "Agent execution failed"

\* A run call of the CommunicationAgent with action = 'send' has returned.
SendRun ==
    /\ agentCall.called
    /\ agentCall.agent = "communication"
    /\ agentCall.task.action = "send"

(***************************************************************************)
(* C20 as stated: for every Communication agent task with action = 'send'  *)
(* the AgentResult returned by run has requires_approval = true, on every  *)
(* outcome of the run.                                                     *)
(***************************************************************************)
C20_SendResultRequiresApproval ==
    SendRun => agentCall.result.requires_approval

(***************************************************************************)
(* C20 amended: for every Communication agent task with action = 'send'    *)
(* the estimation of the run wrapper has requires_approval = true, and the *)
(* AgentResult carries requires_approval = true exactly when execute       *)
(* returned (delivery success or failure); after a validation failure or   *)
(* an exception the AgentResult has requires_approval = false.             *)
(***************************************************************************)
C20_SendEstimateRequiresApproval ==
    SendRun =>
        /\ agentCall.estimation.value.requires_approval
        /\ agentCall.result.requires_approval <=>
               (agentCall.executed /\ ~agentCall.execution.raises)

\* An accepted delivery whose AgentResult carries requires_approval = true.
C20_Witness ==
    /\ SendRun
    /\ agentCall.task.to = "bob@example.com"
    /\ agentCall.executed
    /\ agentCall.result.success
    /\ agentCall.result.sent
    /\ agentCall.result.requires_approval

(***************************************************************************)
(* C21: a subtask failure never aborts the run: when orchestrate has       *)
(* finished, every subtask that depends on no failed subtask, directly or  *)
(* transitively, has been handed to execute_task, also when subtasks       *)
(* before it failed.                                                       *)
(***************************************************************************)
\* The positions (0-based) subtask j (1-based) depends on, directly or transitively.
RECURSIVE Ancestors(_)
Ancestors(j) ==
    orch.subtasks[j].dependencies
        \cup UNION {Ancestors(d + 1) : d \in orch.subtasks[j].dependencies}

\* The positions (0-based) of the subtasks that ended failed.
FailedSubtasks ==
    {j - 1 : j \in {i \in 1..Len(orch.subtasks) : orch.created_subtasks[i].status = "failed"}}

C21_FailureDoesNotAbort ==
    MultiRunFinished =>
        \A j \in 1..Len(orch.subtasks) :
            Ancestors(j) \cap FailedSubtasks = {} => (j - 1) \in orch.called

\* The first subtask raised, the second failed for its dependency on it, and the
\* third, which depends on neither, was still handed to execute_task.
C21_Witness ==
    /\ MultiRunFinished
    /\ Len(orch.subtasks) = 3
    /\ orch.subtasks[2].dependencies = {0}
    /\ orch.subtasks[3].dependencies = {}
    /\ orch.created_subtasks[1].error = NameErrorTaskPriority
    /\ orch.created_subtasks[2].error = "Dependencies not met"
    /\ orch.called = {0, 2}

(***************************************************************************)
(* C22: within one orchestrate call the execute_task invocations for       *)
(* subtasks are strictly increasing in subtask index (each subtask is      *)
(* executed at most once, no retry), and an invocation starts only when no *)
(* earlier invocation is still running.                                    *)
(***************************************************************************)
\* The step in which orchestrate awaits execute_task for the subtask at orch.k.
InvokesSubtask == orch.pc = "loop" /\ orch'.pc = "await"

C22_SequentialNoRetry ==
    [][InvokesSubtask =>
          /\ \A i \in orch.called : i < orch.k - 1
          /\ orch'.called = orch.called \cup {orch.k - 1}
          /\ exe.pc = "idle"
          /\ exe'.pc = "parse"]_vars

\* Two subtasks without dependencies have both been executed, one after the other.
C22_Witness ==
    /\ MultiRunFinished
    /\ orch.called = {0, 1}
    /\ orch.created_subtasks[1].status = "failed"
    /\ orch.created_subtasks[2].status = "failed"
    /\ exe.pc = "idle"

(***************************************************************************)
(* C23: for a complex request the parent row and exactly one row per       *)
(* subtask, each recording its dependency indices and the parent's id, are *)
(* committed with status pending before the first subtask is executed, and *)
(* executing a subtask adds no row to the tasks table.                     *)
(***************************************************************************)
\* The positions in the tasks table of the subtask rows of the current run.
SubtaskRows ==
    {i \in 1..Len(tasks) : tasks[i].kind = "subtask" /\ tasks[i].parent = orch.parent_id}

\* orchestrate is past its first commit on a complex request.
RowsCommitted == orch.pc \in {"loop", "await", "done"} /\ orch.parent_id # 0

C23_RowsPersisted ==
    RowsCommitted =>
        /\ tasks[orch.parent_id].kind = "parent"
        /\ Cardinality(SubtaskRows) = Len(orch.subtasks)
        /\ \A j \in 1..Len(orch.subtasks) :
              \E i \in SubtaskRows :
                  /\ tasks[i].index = j - 1
                  /\ tasks[i].dependencies = orch.subtasks[j].dependencies

\* The commit of step 3 stores the parent and the subtask rows as pending, and
\* nothing has been executed by then.
C23_CommittedPending ==
    [][(orch.pc = "persist" /\ orch'.pc = "loop") =>
          /\ orch'.called = {}
          /\ Len(tasks') = Len(tasks) + 1 + Len(orch.subtasks)
          /\ \A i \in (Len(tasks) + 1)..Len(tasks') : tasks'[i].status = "pending"]_vars

\* The steps of execute_task and of orchestrate around it (other requests may
\* add rows of their own meanwhile).
C23_NoRowDuringExecution ==
    [][(orch.pc = "await" /\ (exe' # exe \/ orch' # orch)) =>
          Len(tasks') = Len(tasks)]_vars

C23_PersistBeforeExecution ==
    []C23_RowsPersisted /\ C23_CommittedPending /\ C23_NoRowDuringExecution

\* The first subtask of a two-step request is being executed and the second row
\* records its dependency on position 0.
C23_Witness ==
    /\ orch.pc = "await"
    /\ exe.pc = "create"
    /\ orch.called = {0}
    /\ Len(orch.subtasks) = 2
    /\ \E i \in SubtaskRows : tasks[i].index = 1 /\ tasks[i].dependencies = {0}
    /\ Cardinality(SubtaskRows) = 2

(***************************************************************************)
(* C24: when orchestrate returns from a multi-subtask run, the parent's    *)
(* result['subtask_results'] has an entry for every subtask index 0..n-1,  *)
(* also for subtasks that failed for unmet dependencies or whose execution *)
(* raised.                                                                 *)
(***************************************************************************)
C24_EveryOutcomeRecorded ==
    MultiRunFinished =>
        tasks[orch.parent_id].subtask_results = 0..(Len(orch.subtasks) - 1)

(***************************************************************************)
(* C25: for every message _decompose_intent returns at least one subtask,  *)
(* and every dependency index of the subtask at position i is a position   *)
(* strictly before i, so the creation order is a topological order.        *)
(***************************************************************************)
C25_DependenciesPointBack ==
    decompCall.called =>
        /\ Len(decompCall.subtasks) >= 1
        /\ \A j \in 1..Len(decompCall.subtasks) :
              decompCall.subtasks[j].dependencies \subseteq 0..(j - 2)

\* A message of the first template: two subtasks, the second depending on the first.
C25_Witness ==
    /\ decompCall.called
    /\ decompCall.msg = <<"Research", "laptops", "email">>
    /\ Len(decompCall.subtasks) = 2
    /\ decompCall.subtasks[1].dependencies = {}
    /\ decompCall.subtasks[2].dependencies = {0}

(***************************************************************************)
(* C26: decomposing a message that contains a research keyword and an      *)
(* email or draft keyword yields exactly two subtasks, a research subtask  *)
(* without dependencies followed by a communication subtask depending on   *)
(* position 0.                                                             *)
(***************************************************************************)
HasEmailOrDraft(msg) == Contains(msg, "email") \/ Contains(msg, "draft")

ResearchThenDraft(subtasks) ==
    /\ Len(subtasks) = 2
    /\ subtasks[1].agent_type = "research"
    /\ subtasks[1].dependencies = {}
    /\ subtasks[2].agent_type = "communication"
    /\ subtasks[2].dependencies = {0}

\* As stated: any of the research keywords of _is_complex_intent.
C26_AnyResearchKeyword ==
    (/\ decompCall.called
     /\ ContainsAny(decompCall.msg, ActionKeywords("research"))
     /\ HasEmailOrDraft(decompCall.msg))
        => ResearchThenDraft(decompCall.subtasks)

\* What the code does: the template needs the word "research" itself.
C26_ResearchWordAndDraft ==
    (/\ decompCall.called
     /\ Contains(decompCall.msg, "research")
     /\ HasEmailOrDraft(decompCall.msg))
        => ResearchThenDraft(decompCall.subtasks)

\* A message that also names prices still takes the first template.
C26_Witness ==
    /\ decompCall.called
    /\ decompCall.msg = <<"research", "prices", "draft">>
    /\ ResearchThenDraft(decompCall.subtasks)

(***************************************************************************)
(* C27: orchestrate takes the multi-step path exactly for a message that   *)
(* has keywords of more than one of the categories research, communication *)
(* and purchase and whose decomposition has more than one subtask; every   *)
(* other message is handed to execute_task once, unchanged, and no parent  *)
(* or subtask row is created for it.                                       *)
(***************************************************************************)
\* The lower-case words of the vocabulary in which a keyword of the category occurs.
CategoryWords(action) ==
    CASE action = "research" -> {"research", "research:", "search", "find", "lookup"}
      [] action = "communication" -> {"email", "send", "draft", "message"}
      [] action = "purchase" -> {"buy", "purchase", "products:", "price", "prices"}

HasCategory(msg, action) == \E i \in 1..Len(msg) : Lower(msg[i]) \in CategoryWords(action)

MoreThanOneCategory(msg) ==
    \E a, b \in {"research", "communication", "purchase"} :
        a # b /\ HasCategory(msg, a) /\ HasCategory(msg, b)

\* The complexity decision agrees with the categories (checked under SpecDecompose).
C27_ComplexIffTwoCategories ==
    decompCall.called => (decompCall.is_complex <=> MoreThanOneCategory(decompCall.msg))

C27_DelegateOrDecompose ==
    [][/\ (orch.pc = "parse" /\ orch' # orch) =>
            IF ~MoreThanOneCategory(orch.msg) \/ Len(_decompose_intent(orch.msg)) <= 1
            THEN /\ orch'.pc = "delegated"
                 /\ exe.pc = "idle"
                 /\ exe' = [IdleExec EXCEPT !.pc = "parse", !.user = orch.user,
                                            !.msg = orch.msg]
                 /\ tasks' = tasks
            ELSE /\ orch'.pc = "persist"
                 /\ exe' = exe
       /\ orch.pc = "delegated" =>
            /\ orch'.pc \in {"delegated", "done"}
            /\ orch'.parent_id = 0
            /\ exe'.pc = "parse" => exe.pc = "parse"
            /\ (exe' # exe \/ orch' # orch) => tasks' = tasks]_vars

\* A message with keywords of two categories that matches no template has been
\* handed to execute_task as it is; no row exists.
C27_Witness ==
    /\ orch.pc = "delegated"
    /\ orch.msg = MsgFindSend
    /\ MoreThanOneCategory(orch.msg)
    /\ exe.pc = "create"
    /\ exe.msg = MsgFindSend
    /\ tasks = <<>>

(***************************************************************************)
(* C28: publish is best-effort: it returns without raising whether the     *)
(* user has no subscriber or a callback throws, it has then called every   *)
(* subscriber of that user, in order, and the committed task rows are as   *)
(* they were.                                                              *)
(***************************************************************************)
\* The step in which a publish call ends.
PublishEnds == bus'.pub.pc = "returned" /\ bus'.pub # bus.pub

C28_PublishBestEffort ==
    [][PublishEnds =>
          /\ ~bus'.pub.raised
          /\ bus'.pub.called = bus._subscribers[bus'.pub.user]
          /\ tasks' = EventRows]_vars

\* A throwing callback was subscribed before the queue callback; both were called.
C28_Witness ==
    /\ bus.pub.pc = "returned"
    /\ bus.pub.user = "u1"
    /\ bus._subscribers["u1"] = <<"broken", "event_queue.put">>
    /\ bus.pub.called = <<"broken", "event_queue.put">>
    /\ ~bus.pub.raised

ResearchLabel(text) == IntentKeywords(text) \cap {"research", "search", "find", "lookup"} # {}

CommunicationLabel(text) ==
    IntentKeywords(text) \cap {"email", "send", "draft", "communicate", "message"} # {}

PurchaseLabel(text) ==
    IntentKeywords(text) \cap {"purchase", "buy", "product", "price", "compare"} # {}

NoLabel(text) == ~ResearchLabel(text) /\ ~CommunicationLabel(text) /\ ~PurchaseLabel(text)

C30_FirstMatchWins ==
    typeCall.called =>
        LET intent == typeCall.intent
            command == IntentKeywords(typeCall.command)
            agent_type == typeCall.agent_type
        IN  /\ agent_type \in {"research", "communication", "purchase"}
            /\ ResearchLabel(intent) => agent_type = "research"
            /\ (~ResearchLabel(intent) /\ CommunicationLabel(intent)) =>
                   agent_type = "communication"
            /\ (~ResearchLabel(intent) /\ ~CommunicationLabel(intent)
                    /\ PurchaseLabel(intent)) => agent_type = "purchase"
            /\ (NoLabel(intent) /\ "research" \in command) => agent_type = "research"
            /\ (NoLabel(intent) /\ "research" \notin command
                    /\ command \cap {"email", "send"} # {}) => agent_type = "communication"
            /\ (NoLabel(intent) /\ command \cap {"research", "email", "send"} = {}
                    /\ command \cap {"purchase", "buy"} # {}) => agent_type = "purchase"
            /\ (NoLabel(intent)
                    /\ command \cap {"research", "email", "send", "purchase", "buy"} = {})
                   => agent_type = "research"

\* A label with a purchase and a communication keyword, with a research command:
\* the label's communication keyword decides.
C30_Witness ==
    /\ typeCall.called
    /\ typeCall.intent = "buy_and_email"
    /\ typeCall.command = "research"
    /\ typeCall.agent_type = "communication"

(***************************************************************************)
(* C31: an execute_task call that gets to its agent (the intent needs no   *)
(* approval and the budget gate lets it pass) has published a completion   *)
(* event for its task when it ends; orchestrate publishes exactly one      *)
(* completion event for the parent, after task_created and status_changed. *)
(***************************************************************************)
\* The positions in the event stream of the events of one type for one task.
EventsOf(type, task) ==
    {i \in DOMAIN events : events[i].type = type /\ events[i].task = task}

C31_CompletionEventPublished ==
    (ExecEnded /\ ~exe.intent.requires_approval /\ ~BudgetRejects) =>
        /\ exe.task # 0
        /\ EventsOf("agent_completed", exe.task) \cup EventsOf("task_completed", exe.task) # {}

\* The part about orchestrate: one task_completed for the parent, published last.
C31_ParentCompletionOnce ==
    MultiRunFinished =>
        /\ Cardinality(EventsOf("task_completed", orch.parent_id)) = 1
        /\ \A c \in EventsOf("task_completed", orch.parent_id) :
              /\ \E i \in EventsOf("task_created", orch.parent_id) : i < c
              /\ \E i \in EventsOf("status_changed", orch.parent_id) : i < c
              /\ orch.k > Len(orch.subtasks)

(***************************************************************************)
(* C32: approve_task and reject_task take effect only on a pending task:   *)
(* approve moves it to in_progress, sets started_at and records the        *)
(* approver, reject moves it to cancelled with the rejection as error; on  *)
(* any other task, stored or not, the call raises and the table is as      *)
(* before.  Neither invokes an agent.                                      *)
(***************************************************************************)
\* The step is a call of the service operation op on task t.
ServiceCall(op, t) == nreq' # nreq /\ lastResp'.op = op /\ lastResp'.task = t

IsPending(t) == t \in DOMAIN tasks /\ tasks[t].status = "pending"

NoAgentInvoked == delivered' = delivered /\ exe' = exe /\ agentCall' = agentCall

\* What both statements agree on: statuses, errors, and the failing calls.
ApprovalEffects(t) ==
    /\ ServiceCall("approve_task", t) =>
          /\ NoAgentInvoked
          /\ IF IsPending(t)
             THEN /\ lastResp'.code = 1
                  /\ tasks'[t].status = "in_progress"
                  /\ tasks'[t].started_at # None
                  /\ \A o \in DOMAIN tasks \ {t} : tasks'[o] = tasks[o]
             ELSE lastResp'.code = 0 /\ tasks' = tasks
    /\ ServiceCall("reject_task", t) =>
          /\ NoAgentInvoked
          /\ IF IsPending(t)
             THEN /\ lastResp'.code = 1
                  /\ tasks'[t].status = "cancelled"
                  /\ tasks'[t].error = "Rejected"
                  /\ \A o \in DOMAIN tasks \ {t} : tasks'[o] = tasks[o]
             ELSE lastResp'.code = 0 /\ tasks' = tasks

C33_FailedFetchKeepsRecord ==
    scrapeCall.called =>
        \A i \in DOMAIN scrapeCall.sources :
            LET source == scrapeCall.sources[i]
            IN  source.url # "" =>
                    /\ source.title \in scrapeCall.fetched
                    /\ source.page = "fails" =>
                           \E r \in DOMAIN scrapeCall.processed :
                               /\ scrapeCall.processed[r].title = source.title
                               /\ scrapeCall.processed[r].content = ""

\* The part that holds: the batch goes on, and the pages with text are kept in order.
C33_BatchNotAborted ==
    scrapeCall.called =>
        /\ \A i \in DOMAIN scrapeCall.sources :
              scrapeCall.sources[i].url # "" =>
                  scrapeCall.sources[i].title \in scrapeCall.fetched
        /\ \A i \in DOMAIN scrapeCall.sources :
              (scrapeCall.sources[i].url # "" /\ scrapeCall.sources[i].page = "text") =>
                  \E r \in DOMAIN scrapeCall.processed :
                      scrapeCall.processed[r].title = scrapeCall.sources[i].title

(***************************************************************************)
(* C34: delivery is at-most-once with no replay: in one publish a callback *)
(* is invoked at most as many times as it was registered for the user when *)
(* the publish started (so never for a user without subscribers, whose     *)
(* event is dropped), and a callback that subscribes after a publish is    *)
(* not invoked for it.                                                     *)
(***************************************************************************)
Occurrences(list, callback) ==
    Cardinality({k \in DOMAIN list : list[k] = callback})

C34_AtMostOnceNoReplay ==
    /\ [](\A c \in Callbacks :
             Occurrences(bus.pub.called, c) <= Occurrences(bus.pub.before, c))
    /\ [][bus'._subscribers # bus._subscribers => bus'.pub = bus.pub]_vars

\* The publish for u1 called its one subscriber once; the callback that
\* subscribed since has no invocation.
C34_Witness ==
    /\ bus.pub.pc = "returned"
    /\ bus.pub.user = "u1"
    /\ bus.pub.before = <<"event_queue.put">>
    /\ bus.pub.called = <<"event_queue.put">>
    /\ bus._subscribers["u1"] = <<"event_queue.put", "event_queue.put">>

(***************************************************************************)
(* C35: an IntentResult that parse_intent returns with estimated_cost > 0  *)
(* has requires_approval set; so for every intent with which execute_task  *)
(* gets past the approval request to the agent, the intent has no positive *)
(* cost, the Transaction row has cost 0 and spending is not recorded.      *)
(***************************************************************************)
PositiveCost(r) == r.estimated_cost # <<>> /\ r.estimated_cost[1] > 0

C35_PositiveCostNeedsApproval ==
    intentCall.called =>
        LET r == intentCall.result
        IN  /\ PositiveCost(r) => r.requires_approval
            /\ ~StopsForApproval(r) =>
                  /\ ~PositiveCost(r)
                  /\ TransactionCost(r) = 0
                  /\ ~RecordsSpending(r)

\* Groq answered with a cost of 50 and no approval for a message without a
\* spending word; the result returned asks for approval.
C35_Witness ==
    /\ intentCall.called
    /\ intentCall.groq.ok
    /\ intentCall.groq.result.estimated_cost = <<50>>
    /\ ~intentCall.groq.result.requires_approval
    /\ ~ContainsAny(intentCall.msg, SpendingKeywords)
    /\ ~ContainsAny(intentCall.msg, DestructiveKeywords)
    /\ intentCall.result.estimated_cost = <<50>>
    /\ intentCall.result.requires_approval

(***************************************************************************)
(* C36: for one task at most one of the decisions takes effect, also when  *)
(* they run concurrently: a call that finds the task out of pending raises *)
(* and changes nothing, so no task is both approved and rejected.          *)
(***************************************************************************)
TookEffect(op, t) ==
    \E k \in DOMAIN sess :
        sess[k].op = op /\ sess[k].task_id = t /\ sess[k].pc = "returned" /\ sess[k].ok

C36_OneDecisionTakesEffect ==
    \A t \in DOMAIN tasks :
        ~(TookEffect("approve_task", t) /\ TookEffect("reject_task", t))

\* Calls that do not overlap: the second one raises and the row stays as the
\* first one left it.
C36_SequentialDecisionsExclusive ==
    [][\A k \in DOMAIN sess :
          /\ sess[k].pc = "selected"
          /\ sess'[k].pc # "selected"
          /\ sess[k].found
          /\ tasks[sess[k].task_id].status # "pending"
          /\ sess[k].status = tasks[sess[k].task_id].status
          => sess'[k].pc = "raised" /\ tasks' = tasks]_vars

Subscribed(b, user_id, callback) ==
    /\ user_id \in b.keys
    /\ \E k \in DOMAIN b._subscribers[user_id] : b._subscribers[user_id][k] = callback

\* The step invokes a callback in the running publish.
Invokes(callback) ==
    /\ bus.pub.pc = "loop"
    /\ bus'.pub.called = Append(bus.pub.called, callback)

\* The step is an unsubscribe call, whose arguments are in last.
UnsubscribeStep ==
    /\ bus'.last.op = "unsubscribe"
    /\ bus'.pub = bus.pub
    /\ bus.pub.pc \in {"idle", "returned"}

C38_PerUserIsolation ==
    /\ [](\A u \in Users : u \in bus.keys <=> bus._subscribers[u] # <<>>)
    /\ [][\A c \in Callbacks : Invokes(c) => Subscribed(bus, bus.pub.user, c)]_vars
    /\ [][UnsubscribeStep /\ ~Subscribed(bus, bus'.last.user, bus'.last.callback)
            => bus'._subscribers = bus._subscribers /\ bus'.keys = bus.keys]_vars

\* u2's throwing callback got u2's event and u1's queue callback did not; u1
\* then unsubscribed its only callback and has no key left.
C38_Witness ==
    /\ bus.pub.pc = "returned"
    /\ bus.pub.user = "u2"
    /\ bus.pub.called = <<"broken">>
    /\ bus.last = BusCall("unsubscribe", "u1", "event_queue.put")
    /\ bus.keys = {"u2"}
    /\ bus._subscribers["u1"] = <<>>

(***************************************************************************)
(* C39: provided every awaited call returns or raises, an orchestrate call *)
(* on a complex request terminates; the loop is then past every subtask,   *)
(* having moved one position at a time, the parent row it returns is       *)
(* completed or failed with completed_at set, and a subtask row that is    *)
(* still pending has an approval request.                                  *)
(***************************************************************************)
C39_FinalParent ==
    MultiRunFinished =>
        /\ orch.k = Len(orch.subtasks) + 1
        /\ tasks[orch.parent_id].status \in {"completed", "failed"}
        /\ tasks[orch.parent_id].status = orch.parent_task.status
        /\ tasks[orch.parent_id].completed_at # None
        /\ \A t \in SubtaskRows :
              tasks[t].status = "pending" => tasks[t].approval_request

C39_TerminatesWithFinalParent ==
    /\ <>MultiRunFinished
    /\ []C39_FinalParent
    /\ [][orch'.k \in {orch.k, orch.k + 1}]_vars

\* A run over three subtasks has returned a failed parent.
C39_Witness ==
    /\ MultiRunFinished
    /\ Len(orch.subtasks) = 3
    /\ orch.k = 4
    /\ tasks[orch.parent_id].status = "failed"
    /\ tasks[orch.parent_id].completed_at = "utcnow"
    /\ \A t \in SubtaskRows : tasks[t].status = "failed"

=============================================================================
